---------------------------- MODULE Spec2Model ----------------------------
(***************************************************************************)
(* A model of the MAKER question-answering pipeline: the red-flag          *)
(* admission filter, answer normalization, the first-to-ahead-by-K voting  *)
(* engine (continuous voteUntilConsensus and one-shot determineWinner) and *)
(* the Maker.ask orchestrator.                                             *)
(*                                                                         *)
(* Strings are sequences of one-character strings, so that trimming,       *)
(* lower-casing and the regular-expression replacements act on characters. *)
(***************************************************************************)
EXTENDS Integers, Sequences, FiniteSets, TLC

VARIABLES
    call,                                             \* the entry point called
    nInput, nResult,                                  \* normalizeAnswer call
    fConfig, fAnswer, fParse, fResult, fValidatorCalls, \* RedFlagFilter.check call
    dK, dVotes, dResult,                              \* determineWinner call
    k, maxVotes, rfConfig,                            \* voting session: configuration
    voteCounts, allVotes, validVoteCount, voteIndex,  \* voting session: locals
    onVoteCalls, vResult, vError,                     \* voting session: callback log, outcome
    aConfig, aQuestion, aPc,                          \* ask: configuration, question, position
    classification, decomposition,                    \* ask: classification and plan
    subResults,                                       \* ask: the sub-results pushed so far
    events, oracleCalls, aResult,                     \* ask: events emitted, provider calls, outcome
    outstanding,                                      \* ask: provider calls not yet answered
    pArgs, pCalls, pResponse, pResult,                \* a stage of ask called on its own
    otherAsk                                          \* two asks: the ask that is not running

normVars   == <<nInput, nResult>>
filterVars == <<fConfig, fAnswer, fParse, fResult, fValidatorCalls>>
dwVars     == <<dK, dVotes, dResult>>
voteVars   == <<k, maxVotes, rfConfig, voteCounts, allVotes, validVoteCount,
                voteIndex, onVoteCalls, vResult, vError>>
askVars    == <<aConfig, aQuestion, aPc, classification, decomposition, subResults, events,
               oracleCalls, aResult, outstanding>>
stageVars  == <<pArgs, pCalls, pResponse, pResult, otherAsk>>
vars       == <<call, normVars, filterVars, dwVars, voteVars, askVars, stageVars>>

\* No second ask has been called
NoAsk == <<>>

\* A call that has not returned, and one that returned v.
Pending == [done |-> FALSE]
Returned(v) == [done |-> TRUE, value |-> v]

-----------------------------------------------------------------------------
(* Bounds of the model *)

\* longest string given to normalizeAnswer
MaxStrLen == 4
\* longest answer body given to RedFlagFilter.check
MaxAnswerLen == 13
\* largest minChars / maxTokens configured in the filter specification
MaxMinChars == 6
MaxMaxTokens == 2
\* longest vote list given to determineWinner
MaxVoteList == 5
\* largest k and maxVotes configured, and the cap on samples drawn in a session
MaxK == 3
MaxMaxVotes == 3
MaxSamples == 4
\* ask: the samples drawn in one sub-question's session
MaxAskSamples == 3
\* largest samples configured for collectVotes
MaxCollectSamples == 3
\* synthesize: the sub-answers given to it
MaxSubAnswers == 3

-----------------------------------------------------------------------------
(* Characters and strings *)

\* The characters of the model: two letters in both cases, whitespace, and
\* two of the punctuation characters of the set . , ! ? ; :
UpperChars == {"P", "L"}
LowerChars == {"p", "l"}
SpaceChars == {" "}
PunctChars == {".", "!"}
Chars == UpperChars \cup LowerChars \cup SpaceChars \cup PunctChars

SeqsUpTo(S, n) == UNION {[1..m -> S] : m \in 0..n}

\* String.prototype.toLowerCase, per character
LowerChar(c) == IF c = "P" THEN "p" ELSE IF c = "L" THEN "l" ELSE c
ToLowerCase(s) == [i \in 1..Len(s) |-> LowerChar(s[i])]

\* String.prototype.trim: strip leading and trailing whitespace
RECURSIVE TrimStart(_)
TrimStart(s) ==
    IF s # <<>> /\ Head(s) \in SpaceChars THEN TrimStart(Tail(s)) ELSE s

RECURSIVE TrimEnd(_)
TrimEnd(s) ==
    IF s # <<>> /\ s[Len(s)] \in SpaceChars
    THEN TrimEnd(SubSeq(s, 1, Len(s) - 1)) ELSE s

Trim(s) == TrimEnd(TrimStart(s))

\* replace(/\s+/g, ' '): every run of whitespace becomes one space
RECURSIVE CollapseWhitespace(_)
CollapseWhitespace(s) ==
    IF s = <<>> THEN <<>>
    ELSE IF Head(s) \in SpaceChars
         THEN <<" ">> \o CollapseWhitespace(TrimStart(s))
         ELSE <<Head(s)>> \o CollapseWhitespace(Tail(s))

\* replace(/[.,!?;:]+$/, ''): the run of punctuation at the end is removed
RECURSIVE StripTrailingPunct(_)
StripTrailingPunct(s) ==
    IF s # <<>> /\ s[Len(s)] \in PunctChars
    THEN StripTrailingPunct(SubSeq(s, 1, Len(s) - 1)) ELSE s

\* A mutant of normalizeAnswer that forgets to lower-case.
normalizeAnswerNoLower(answer) ==
    IF answer = <<>> THEN <<>>
    ELSE StripTrailingPunct(CollapseWhitespace(Trim(answer)))

\* VotingEngine.normalizeAnswer
normalizeAnswer(answer) ==
    IF answer = <<>> THEN <<>>
    ELSE StripTrailingPunct(CollapseWhitespace(Trim(ToLowerCase(answer))))

-----------------------------------------------------------------------------
(* Red-flag admission filter *)

\* The defaults of the RedFlagFilter constructor
DefaultMaxTokens == 750
DefaultMinChars == 5
DefaultFilterConfig ==
    [minChars |-> DefaultMinChars, maxTokens |-> DefaultMaxTokens, validator |-> "none"]

\* The custom validators of the model: none, one that flags every answer
\* holding an upper-case P, one that flags every answer.
Validators == {"none", "flagP", "flagAll"}

\* A validator may also return { redFlagged: true } with no reason (reason
\* is optional in RedFlagResult): "flagPBare" flags like "flagP" but gives none.
customValidator(v, trimmedAnswer) ==
    IF v = "flagPBare" /\ \E i \in 1..Len(trimmedAnswer) : trimmedAnswer[i] = "P"
    THEN [redFlagged |-> TRUE, reason |-> "none"]
    ELSE
    IF v = "flagAll" \/ (v = "flagP" /\ \E i \in 1..Len(trimmedAnswer) : trimmedAnswer[i] = "P")
    THEN [redFlagged |-> TRUE, reason |-> "custom"]
    ELSE [redFlagged |-> FALSE, reason |-> "none"]

\* A mutant of the token estimate that rounds down.
Floor4(n) == n \div 4

\* Math.ceil(n / 4)
Ceil4(n) == (n + 3) \div 4

Flag(reason) == [redFlagged |-> TRUE, reason |-> reason]
NoFlag == [redFlagged |-> FALSE, reason |-> "none"]

\* A mutant of check that tests the parse flag before the length checks.
checkRunFormatFirst(cfg, answer, parseSucceeded) ==
    LET trimmedAnswer == Trim(answer)
        estimatedTokens == Ceil4(Len(trimmedAnswer))
    IN  IF answer = <<>>
        THEN [result |-> Flag("response_too_short"), validatorCalled |-> FALSE]
        ELSE IF ~parseSucceeded
        THEN [result |-> Flag("invalid_format"), validatorCalled |-> FALSE]
        ELSE IF estimatedTokens > cfg.maxTokens
        THEN [result |-> Flag("response_too_long"), validatorCalled |-> FALSE]
        ELSE IF Len(trimmedAnswer) < cfg.minChars
        THEN [result |-> Flag("response_too_short"), validatorCalled |-> FALSE]
        ELSE IF cfg.validator # "none"
        THEN [result |-> customValidator(cfg.validator, trimmedAnswer),
              validatorCalled |-> TRUE]
        ELSE [result |-> NoFlag, validatorCalled |-> FALSE]

\* A mutant of check that applies the minimum-length check before the
\* token estimate.
checkRunShortFirst(cfg, answer, parseSucceeded) ==
    LET trimmedAnswer == Trim(answer)
        estimatedTokens == Ceil4(Len(trimmedAnswer))
    IN  IF answer = <<>> \/ Len(trimmedAnswer) < cfg.minChars
        THEN [result |-> Flag("response_too_short"), validatorCalled |-> FALSE]
        ELSE IF estimatedTokens > cfg.maxTokens
        THEN [result |-> Flag("response_too_long"), validatorCalled |-> FALSE]
        ELSE IF ~parseSucceeded
        THEN [result |-> Flag("invalid_format"), validatorCalled |-> FALSE]
        ELSE IF cfg.validator # "none"
        THEN [result |-> customValidator(cfg.validator, trimmedAnswer),
              validatorCalled |-> TRUE]
        ELSE [result |-> NoFlag, validatorCalled |-> FALSE]

\* RedFlagFilter.check, one run of it: the RedFlagResult returned (reason
\* "none": no reason) and whether the run called the custom validator.
\* A validator result that does not flag falls through to "all checks
\* passed", which is the validator's own unflagged result here.
checkRun(cfg, answer, parseSucceeded) ==
    LET trimmedAnswer == Trim(answer)
        estimatedTokens == Ceil4(Len(trimmedAnswer))
    IN  IF answer = <<>>
        THEN [result |-> Flag("response_too_short"), validatorCalled |-> FALSE]
        ELSE IF estimatedTokens > cfg.maxTokens
        THEN [result |-> Flag("response_too_long"), validatorCalled |-> FALSE]
        ELSE IF Len(trimmedAnswer) < cfg.minChars
        THEN [result |-> Flag("response_too_short"), validatorCalled |-> FALSE]
        ELSE IF ~parseSucceeded
        THEN [result |-> Flag("invalid_format"), validatorCalled |-> FALSE]
        ELSE IF cfg.validator # "none"
        THEN [result |-> customValidator(cfg.validator, trimmedAnswer),
              validatorCalled |-> TRUE]
        ELSE [result |-> NoFlag, validatorCalled |-> FALSE]

\* RedFlagFilter.check: its return value
check(cfg, answer, parseSucceeded) == checkRun(cfg, answer, parseSucceeded).result

-----------------------------------------------------------------------------
(* Voting engine: tally, determineWinner *)

\* DEFAULT_CONFIG of the voting engine
DefaultK == 3
DefaultMaxVotes == 100

ConfidenceLevels == {"high", "medium", "low"}

\* An absent winner (null) and an absent confidence (undefined)
Null == <<"null">>
NoConfidence == "undefined"

\* VotingEngine.compareConfidence: positive if a > b, negative if a < b
confidenceOrder(c) == CASE c = "high" -> 3 [] c = "medium" -> 2 [] c = "low" -> 1
compareConfidence(a, b) == confidenceOrder(a) - confidenceOrder(b)

\* The tally (a Map, which keeps insertion order) is the sequence of its
\* entries [key, count, originalAnswer, confidence] in insertion order.
TallyIndex(counts, key) ==
    IF \E i \in 1..Len(counts) : counts[i].key = key
    THEN CHOOSE i \in 1..Len(counts) : counts[i].key = key
    ELSE 0

\* A mutant of the tally update that gives every vote a bucket of its own
\* count, never incrementing an existing one.
tallyVoteNoIncrement(counts, normalized, vote) ==
    IF TallyIndex(counts, normalized) # 0 THEN counts
    ELSE Append(counts, [key |-> normalized, count |-> 1,
                         originalAnswer |-> vote.answer,
                         confidence |-> vote.confidence])

\* A mutant of the tally update that keeps the confidence of the bucket's
\* first vote
tallyVoteFirstConfidence(counts, normalized, vote) ==
    LET i == TallyIndex(counts, normalized)
    IN  IF i # 0
        THEN [counts EXCEPT ![i] = [@ EXCEPT !.count = @ + 1]]
        ELSE Append(counts, [key |-> normalized, count |-> 1,
                             originalAnswer |-> vote.answer,
                             confidence |-> vote.confidence])

\* The tally update of voteUntilConsensus and of countVotes: an existing
\* bucket is incremented and keeps the higher confidence, a new answer gets
\* a bucket of count 1 holding the vote's own text.
tallyVote(counts, normalized, vote) ==
    LET i == TallyIndex(counts, normalized)
    IN  IF i # 0
        THEN [counts EXCEPT ![i] =
                [@ EXCEPT !.count = @ + 1,
                          !.confidence =
                              IF compareConfidence(vote.confidence, @) > 0
                              THEN vote.confidence ELSE @]]
        ELSE Append(counts, [key |-> normalized, count |-> 1,
                             originalAnswer |-> vote.answer,
                             confidence |-> vote.confidence])

\* VotingEngine.countVotes: votes whose normalized answer is empty are skipped
RECURSIVE countVotesFrom(_, _)
countVotesFrom(counts, votes) ==
    IF votes = <<>> THEN counts
    ELSE LET vote == Head(votes)
             normalized == normalizeAnswer(vote.answer)
         IN  countVotesFrom(IF normalized = <<>> THEN counts
                            ELSE tallyVote(counts, normalized, vote),
                            Tail(votes))

countVotes(votes) == countVotesFrom(<<>>, votes)

\* Array.prototype.sort((a, b) => b.count - a.count): a stable sort by
\* descending count, so entries of equal count keep their insertion order.
RECURSIVE InsertByCount(_, _)

\* A mutant of InsertByCount that puts an entry in front of those of equal
\* count: the sort is no longer stable
InsertByCountTiesLast(sorted, e) ==
    IF sorted = <<>> THEN <<e>>
    ELSE IF Head(sorted).count > e.count
         THEN <<Head(sorted)>> \o InsertByCount(Tail(sorted), e)
         ELSE <<e>> \o sorted

InsertByCount(sorted, e) ==
    IF sorted = <<>> THEN <<e>>
    ELSE IF Head(sorted).count >= e.count
         THEN <<Head(sorted)>> \o InsertByCount(Tail(sorted), e)
         ELSE <<e>> \o sorted

RECURSIVE SortByCountFrom(_, _)
SortByCountFrom(sorted, entries) ==
    IF entries = <<>> THEN sorted
    ELSE SortByCountFrom(InsertByCount(sorted, Head(entries)), Tail(entries))

sortByCount(entries) == SortByCountFrom(<<>>, entries)

\* VotingEngine.createStats
createStats(all, valid, winningVoteCount, runnerUpVotes, kk) ==
    [totalVotes |-> Len(all),
     validVotes |-> Len(valid),
     redFlaggedVotes |-> Len(all) - Len(valid),
     winningVoteCount |-> winningVoteCount,
     margin |-> winningVoteCount - runnerUpVotes,
     k |-> kk]

IsNotRedFlagged(v) == ~v.redFlagged

\* A mutant of determineWinner that asks for K votes in total, not for a
\* lead of K.
determineWinnerTotalK(votes, kk) ==
    LET validVotes == SelectSeq(votes, IsNotRedFlagged)
        sorted == sortByCount(countVotes(validVotes))
    IN  IF Len(validVotes) = 0 \/ Len(sorted) = 0
        THEN [consensusReached |-> FALSE, winner |-> Null,
              confidence |-> NoConfidence,
              stats |-> createStats(votes, validVotes, 0, 0, kk)]
        ELSE LET winnerData == sorted[1]
                 winnerVotes == winnerData.count
                 runnerUpVotes == IF Len(sorted) > 1 THEN sorted[2].count ELSE 0
             IN  [consensusReached |-> winnerVotes >= kk,
                  winner |-> winnerData.originalAnswer,
                  confidence |-> winnerData.confidence,
                  stats |-> createStats(votes, validVotes, winnerVotes,
                                        runnerUpVotes, kk)]

\* A mutant of determineWinner that tallies the red-flagged votes too.
determineWinnerCountsFlagged(votes, kk) ==
    LET validVotes == SelectSeq(votes, IsNotRedFlagged)
        sorted == sortByCount(countVotes(votes))
    IN  IF Len(validVotes) = 0 \/ Len(sorted) = 0
        THEN [consensusReached |-> FALSE, winner |-> Null,
              confidence |-> NoConfidence,
              stats |-> createStats(votes, validVotes, 0, 0, kk)]
        ELSE LET winnerData == sorted[1]
                 winnerVotes == winnerData.count
                 runnerUpVotes == IF Len(sorted) > 1 THEN sorted[2].count ELSE 0
             IN  [consensusReached |->
                      IF Len(sorted) = 1 THEN winnerVotes >= kk
                      ELSE (winnerVotes - runnerUpVotes) >= kk,
                  winner |-> winnerData.originalAnswer,
                  confidence |-> winnerData.confidence,
                  stats |-> createStats(votes, validVotes, winnerVotes,
                                        runnerUpVotes, kk)]

\* VotingEngine.determineWinner, of an engine configured with k = kk
determineWinner(votes, kk) ==
    LET validVotes == SelectSeq(votes, IsNotRedFlagged)
        sorted == sortByCount(countVotes(validVotes))
    IN  IF Len(validVotes) = 0 \/ Len(sorted) = 0
        THEN [consensusReached |-> FALSE, winner |-> Null,
              confidence |-> NoConfidence,
              stats |-> createStats(votes, validVotes, 0, 0, kk)]
        ELSE LET winnerData == sorted[1]
                 winnerVotes == winnerData.count
                 runnerUpVotes == IF Len(sorted) > 1 THEN sorted[2].count ELSE 0
             IN  [consensusReached |->
                      IF Len(sorted) = 1 THEN winnerVotes >= kk
                      ELSE (winnerVotes - runnerUpVotes) >= kk,
                  winner |-> winnerData.originalAnswer,
                  confidence |-> winnerData.confidence,
                  stats |-> createStats(votes, validVotes, winnerVotes,
                                        runnerUpVotes, kk)]

-----------------------------------------------------------------------------
(* Voting engine: generateVote and one iteration of voteUntilConsensus *)

\* What provider.complete does on one call: it throws, or returns a content
\* that is an object with an answer field (and a confidence, or none), an
\* object without an answer field, or a string.
Throws == [kind |-> "throw"]
ObjectContent(answer, confidence) ==
    [kind |-> "object", answer |-> answer, confidence |-> confidence]
ObjectNoAnswer == [kind |-> "objectNoAnswer"]
TextContent(text) == [kind |-> "text", text |-> text]

\* The sampling temperatures 0 and 0.1
TempZero == "0"
TempPointOne == "0.1"

\* A mutant of temperatureFor: every sample at 0.1
temperatureForAlwaysWarm(voteIndex_) == TempPointOne

\* The temperature of the sample with voteIndex_: 0 for the first, 0.1 after
temperatureFor(voteIndex_) == IF voteIndex_ = 0 THEN TempZero ELSE TempPointOne

NewVote(voteIndex_, answer, confidence, temperature, parseSucceeded) ==
    [voteIndex |-> voteIndex_, answer |-> answer, confidence |-> confidence,
     temperature |-> temperature, parseSucceeded |-> parseSucceeded,
     redFlagged |-> FALSE, redFlagReason |-> "none"]

\* A mutant of generateVote without the try/catch: the provider's exception
\* propagates.
generateVoteNoCatch(response, temperature, voteIndex_) ==
    CASE response.kind = "throw" -> [thrown |-> TRUE]
      [] response.kind = "object" ->
            [thrown |-> FALSE,
             vote |-> NewVote(voteIndex_, response.answer,
                              IF response.confidence = "absent" THEN "medium"
                              ELSE response.confidence,
                              temperature, TRUE)]
      [] response.kind = "text" ->
            [thrown |-> FALSE,
             vote |-> NewVote(voteIndex_, response.text, "medium", temperature, FALSE)]
      [] OTHER ->
            [thrown |-> FALSE,
             vote |-> NewVote(voteIndex_, <<>>, "medium", temperature, FALSE)]

\* VotingEngine.generateVote: the vote made of one provider call. thrown
\* tells whether an exception leaves generateVote.
generateVote(response, temperature, voteIndex_) ==
    CASE response.kind = "throw" ->
            [thrown |-> FALSE,
             vote |-> [NewVote(voteIndex_, <<>>, "low", temperature, FALSE)
                          EXCEPT !.redFlagged = TRUE,
                                 !.redFlagReason = "invalid_format"]]
      [] response.kind = "object" ->
            [thrown |-> FALSE,
             vote |-> NewVote(voteIndex_, response.answer,
                              IF response.confidence = "absent" THEN "medium"
                              ELSE response.confidence,
                              temperature, TRUE)]
      [] response.kind = "text" ->
            [thrown |-> FALSE,
             vote |-> NewVote(voteIndex_, response.text, "medium", temperature, FALSE)]
      [] OTHER ->
            [thrown |-> FALSE,
             vote |-> NewVote(voteIndex_, <<>>, "medium", temperature, FALSE)]

\* Math.max(...counts) and the second of the counts sorted descending
MaxCount(counts) ==
    CHOOSE m \in {counts[i].count : i \in 1..Len(counts)} :
        \A i \in 1..Len(counts) : counts[i].count <= m

\* A mutant of RunnerUpCount that finds no runner-up
RunnerUpCountNone(counts) == 0

RunnerUpCount(counts) ==
    IF Len(counts) > 1 THEN sortByCount(counts)[2].count ELSE 0

\* The first entry, in insertion order, whose count is c
FirstWithCount(counts, c) ==
    counts[CHOOSE i \in 1..Len(counts) :
               /\ counts[i].count = c
               /\ \A j \in 1..(i - 1) : counts[j].count # c]

\* The state of a session after one more iteration of the loop:
\* next.result is Pending when the loop goes round again.
SessionState(counts, votes, valid, result) ==
    [voteCounts |-> counts, allVotes |-> votes, validVoteCount |-> valid,
     result |-> result]

\* A mutant of the iteration that tests the safety limit on every sample,
\* the rejected and the empty ones included.
voteIterationCutoffAlways(kk, maxVotes_, cfg, counts, votes, valid, vote) ==
    LET pushed == Append(votes, vote)
        flagResult == check(cfg, vote.answer, vote.parseSucceeded)
        normalized == normalizeAnswer(vote.answer)
        tallied == IF flagResult.redFlagged \/ normalized = <<>> THEN counts
                   ELSE tallyVote(counts, normalized, vote)
        valid1 == IF flagResult.redFlagged THEN valid ELSE valid + 1
        votes1 == IF flagResult.redFlagged
                  THEN Append(votes, [vote EXCEPT !.redFlagged = TRUE,
                                           !.redFlagReason = flagResult.reason])
                  ELSE pushed
        sorted == sortByCount(tallied)
        top == IF Len(sorted) > 0 THEN sorted[1].count ELSE 0
        second == IF Len(sorted) > 1 THEN sorted[2].count ELSE 0
        stats == [totalVotes |-> Len(votes1), validVotes |-> valid1,
                  redFlaggedVotes |-> Len(votes1) - valid1,
                  winningVoteCount |-> top, margin |-> top - second, k |-> kk]
    IN  IF Len(tallied) > 0 /\ tallied # counts /\ top >= kk + second
        THEN SessionState(tallied, votes1, valid1,
                 Returned([consensusReached |-> TRUE,
                           winner |-> FirstWithCount(tallied, top).originalAnswer,
                           confidence |-> FirstWithCount(tallied, top).confidence,
                           stats |-> stats]))
        ELSE IF Len(votes1) >= maxVotes_
        THEN SessionState(tallied, votes1, valid1,
                 Returned([consensusReached |-> FALSE,
                           winner |-> IF Len(sorted) > 0
                                      THEN sorted[1].originalAnswer ELSE Null,
                           confidence |-> IF Len(sorted) > 0
                                          THEN sorted[1].confidence ELSE NoConfidence,
                           stats |-> stats]))
        ELSE SessionState(tallied, votes1, valid1, Pending)

\* A mutant of the iteration that counts a rejected sample as valid.
voteIterationCountsRejected(kk, maxVotes_, cfg, counts, votes, valid, vote) ==
    LET flagResult == check(cfg, vote.answer, vote.parseSucceeded)
    IN  IF flagResult.redFlagged
        THEN SessionState(counts,
                 Append(votes, [vote EXCEPT !.redFlagged = TRUE,
                                          !.redFlagReason = flagResult.reason]),
                 valid + 1, Pending)
        ELSE voteIterationCutoffAlways(kk, maxVotes_, cfg, counts, votes, valid, vote)

\* A mutant of the iteration that declares consensus on K votes in total.
voteIterationTotalK(kk, maxVotes_, cfg, counts, votes, valid, vote) ==
    LET flagResult == check(cfg, vote.answer, vote.parseSucceeded)
        normalized == normalizeAnswer(vote.answer)
        tallied == tallyVote(counts, normalized, vote)
        top == MaxCount(tallied)
        second == RunnerUpCount(tallied)
        sorted == sortByCount(tallied)
        stats == [totalVotes |-> Len(votes) + 1, validVotes |-> valid + 1,
                  redFlaggedVotes |-> Len(votes) - valid,
                  winningVoteCount |-> top, margin |-> top - second, k |-> kk]
    IN  IF flagResult.redFlagged
        THEN SessionState(counts,
                 Append(votes, [vote EXCEPT !.redFlagged = TRUE,
                                          !.redFlagReason = flagResult.reason]),
                 valid, Pending)
        ELSE IF normalized = <<>>
        THEN SessionState(counts, Append(votes, vote), valid + 1, Pending)
        ELSE IF top >= kk
        THEN SessionState(tallied, Append(votes, vote), valid + 1,
                 Returned([consensusReached |-> TRUE,
                           winner |-> FirstWithCount(tallied, top).originalAnswer,
                           confidence |-> FirstWithCount(tallied, top).confidence,
                           stats |-> stats]))
        ELSE IF Len(votes) + 1 >= maxVotes_
        THEN SessionState(tallied, Append(votes, vote), valid + 1,
                 Returned([consensusReached |-> FALSE,
                           winner |-> sorted[1].originalAnswer,
                           confidence |-> sorted[1].confidence,
                           stats |-> stats]))
        ELSE SessionState(tallied, Append(votes, vote), valid + 1, Pending)

\* A mutant of rejectedSample that tallies the rejected sample's answer
rejectedSampleTallied(counts, votes, valid, vote, flagResult) ==
    SessionState(IF normalizeAnswer(vote.answer) = <<>> THEN counts
                 ELSE tallyVote(counts, normalizeAnswer(vote.answer), vote),
                 Append(votes, [vote EXCEPT !.redFlagged = TRUE,
                                          !.redFlagReason = flagResult.reason]),
                 valid, Pending)

\* The round of a sample the filter rejects: the vote, already pushed, is
\* marked with the reason, and `continue` goes to the next sample
rejectedSample(counts, votes, valid, vote, flagResult) ==
    SessionState(counts,
                 Append(votes, [vote EXCEPT !.redFlagged = TRUE,
                                          !.redFlagReason = flagResult.reason]),
                 valid, Pending)

\* A mutant of emptySample that does not count the sample as valid
emptySampleNotValid(counts, votes, valid, vote) ==
    SessionState(counts, Append(votes, vote), valid, Pending)

\* The round of an admitted sample whose normalized answer is empty: it is
\* counted as valid, and `continue` goes to the next sample
emptySample(counts, votes, valid, vote) ==
    SessionState(counts, Append(votes, vote), valid + 1, Pending)

\* A mutant of the iteration that tests the safety limit before the lead.
voteIterationCutoffFirst(kk, maxVotes_, cfg, counts, votes, valid, vote) ==
    LET flagResult == check(cfg, vote.answer, vote.parseSucceeded)
        normalized == normalizeAnswer(vote.answer)
        tallied == tallyVote(counts, normalized, vote)
        maxCount == MaxCount(tallied)
        runnerUpCount == RunnerUpCount(tallied)
        sorted == sortByCount(tallied)
        stats == createStats(Append(votes, vote), [i \in 1..(valid + 1) |-> i],
                             maxCount, runnerUpCount, kk)
    IN  IF flagResult.redFlagged
        THEN rejectedSample(counts, votes, valid, vote, flagResult)
        ELSE IF normalized = <<>>
        THEN emptySample(counts, votes, valid, vote)
        ELSE IF Len(votes) + 1 >= maxVotes_
        THEN SessionState(tallied, Append(votes, vote), valid + 1,
                 Returned([consensusReached |-> FALSE,
                           winner |-> sorted[1].originalAnswer,
                           confidence |-> sorted[1].confidence,
                           stats |-> stats]))
        ELSE IF maxCount >= kk + runnerUpCount
        THEN SessionState(tallied, Append(votes, vote), valid + 1,
                 Returned([consensusReached |-> TRUE,
                           winner |-> FirstWithCount(tallied, maxCount).originalAnswer,
                           confidence |-> FirstWithCount(tallied, maxCount).confidence,
                           stats |-> stats]))
        ELSE SessionState(tallied, Append(votes, vote), valid + 1, Pending)

\* One iteration of the loop of voteUntilConsensus, after generateVote has
\* returned vote: push, filter, tally, then the first-to-ahead-by-K test and
\* the safety limit. The two `continue` statements (a rejected sample, an
\* empty normalized answer) skip both tests.
voteIteration(kk, maxVotes_, cfg, counts, votes, valid, vote) ==
    LET flagResult == check(cfg, vote.answer, vote.parseSucceeded)
        normalized == normalizeAnswer(vote.answer)
        tallied == tallyVote(counts, normalized, vote)
        maxCount == MaxCount(tallied)
        runnerUpCount == RunnerUpCount(tallied)
        sorted == sortByCount(tallied)
        total == Len(votes) + 1
    IN  IF flagResult.redFlagged
        THEN rejectedSample(counts, votes, valid, vote, flagResult)
        ELSE IF normalized = <<>>
        THEN emptySample(counts, votes, valid, vote)
        ELSE IF maxCount >= kk + runnerUpCount
        THEN SessionState(tallied, Append(votes, vote), valid + 1,
                 Returned([consensusReached |-> TRUE,
                           winner |-> FirstWithCount(tallied, maxCount).originalAnswer,
                           confidence |-> FirstWithCount(tallied, maxCount).confidence,
                           stats |-> [totalVotes |-> total,
                                      validVotes |-> valid + 1,
                                      redFlaggedVotes |-> total - (valid + 1),
                                      winningVoteCount |-> maxCount,
                                      margin |-> maxCount - runnerUpCount,
                                      k |-> kk]]))
        ELSE IF total >= maxVotes_
        THEN SessionState(tallied, Append(votes, vote), valid + 1,
                 Returned([consensusReached |-> FALSE,
                           winner |-> sorted[1].originalAnswer,
                           confidence |-> sorted[1].confidence,
                           stats |-> [totalVotes |-> total,
                                      validVotes |-> valid + 1,
                                      redFlaggedVotes |-> total - (valid + 1),
                                      winningVoteCount |-> sorted[1].count,
                                      margin |-> sorted[1].count -
                                          (IF Len(sorted) > 1 THEN sorted[2].count
                                           ELSE 0),
                                      k |-> kk]]))
        ELSE SessionState(tallied, Append(votes, vote), valid + 1, Pending)

\* What an onVote callback does with the Map it is handed, which is the
\* session's own voteCounts and not a copy: it only reads it, it calls
\* clear() on it, or it increments the count of its first entry.
CallbackEffects == {"reads", "clears", "raises"}

applyCallback(effect, counts) ==
    CASE effect = "clears" -> <<>>
      [] effect = "raises" /\ Len(counts) > 0 ->
            [counts EXCEPT ![1] = [@ EXCEPT !.count = @ + 1]]
      [] OTHER -> counts

\* One iteration of the loop of voteUntilConsensus when onVote is a callback
\* of the caller: the callback runs on the live tally at each of the three
\* onVote calls, and the tests that follow read what it left. With an empty
\* tally (`counts.length === 0`) the loop goes round again.
voteIterationObserved(kk, maxVotes_, cfg, counts, votes, valid, vote, effect) ==
    LET flagResult == check(cfg, vote.answer, vote.parseSucceeded)
        normalized == normalizeAnswer(vote.answer)
        seen == applyCallback(effect, tallyVote(counts, normalized, vote))
        sorted == sortByCount(seen)
        total == Len(votes) + 1
    IN  IF flagResult.redFlagged
        THEN [rejectedSample(counts, votes, valid, vote, flagResult)
                 EXCEPT !.voteCounts = applyCallback(effect, counts)]
        ELSE IF normalized = <<>>
        THEN [emptySample(counts, votes, valid, vote)
                 EXCEPT !.voteCounts = applyCallback(effect, counts)]
        ELSE IF Len(seen) = 0
        THEN SessionState(seen, Append(votes, vote), valid + 1, Pending)
        ELSE IF MaxCount(seen) >= kk + RunnerUpCount(seen)
        THEN SessionState(seen, Append(votes, vote), valid + 1,
                 Returned([consensusReached |-> TRUE,
                           winner |-> FirstWithCount(seen, MaxCount(seen)).originalAnswer,
                           confidence |-> FirstWithCount(seen, MaxCount(seen)).confidence,
                           stats |-> [totalVotes |-> total,
                                      validVotes |-> valid + 1,
                                      redFlaggedVotes |-> total - (valid + 1),
                                      winningVoteCount |-> MaxCount(seen),
                                      margin |-> MaxCount(seen) - RunnerUpCount(seen),
                                      k |-> kk]]))
        ELSE IF total >= maxVotes_
        THEN SessionState(seen, Append(votes, vote), valid + 1,
                 Returned([consensusReached |-> FALSE,
                           winner |-> sorted[1].originalAnswer,
                           confidence |-> sorted[1].confidence,
                           stats |-> [totalVotes |-> total,
                                      validVotes |-> valid + 1,
                                      redFlaggedVotes |-> total - (valid + 1),
                                      winningVoteCount |-> sorted[1].count,
                                      margin |-> sorted[1].count -
                                          (IF Len(sorted) > 1 THEN sorted[2].count
                                           ELSE 0),
                                      k |-> kk]]))
        ELSE SessionState(seen, Append(votes, vote), valid + 1, Pending)

-----------------------------------------------------------------------------
(* Maker.ask: configuration, Decomposer, Synthesizer and the roll-ups *)

\* An optional value: Absent when undefined, Some(v) when set; OrElse is `??`.
Absent == <<>>
Some(v) == <<v>>
OrElse(opt, default) == IF opt = Absent THEN default ELSE opt[1]

\* JavaScript truthiness of an optional string: set and not empty
Truthy(opt) == opt # Absent /\ opt[1] # <<>>

\* `opt || default` for an optional name (a string of the model): the
\* default also replaces the empty string
OrIfFalsy(opt, default) ==
    IF opt = Absent THEN default ELSE IF opt[1] = "" THEN default ELSE opt[1]

DefaultMaxSubQuestions == 8

\* 'Unable to determine answer.'
UnableToDetermine ==
    <<"U", "n", "a", "b", "l", "e", " ", "t", "o", " ",
      "d", "e", "t", "e", "r", "m", "i", "n", "e", " ",
      "a", "n", "s", "w", "e", "r", ".">>

\* A MakerConfig (the fields ask reads) with the options of the ask call:
\* decomposition.enabled, decomposition.maxSubQuestions, synthesis.enabled,
\* voting.k, voting.maxVotes, options.k and the red-flag filter's settings.
\* decomposition.classifier is left to its default, 'auto'.
MakerConfig(de, ms, se, vk, mv, ok, rf) ==
    [decompositionEnabled |-> de, maxSubQuestions |-> ms, synthesisEnabled |-> se,
     votingK |-> vk, votingMaxVotes |-> mv, optionsK |-> ok, redFlags |-> rf,
     classifier |-> "auto"]

\* A MakerConfig whose decomposition.classifier is a function of the caller:
\* one that finds every question atomic, one that finds every question in
\* need of decomposition, or one that throws
CustomClassifiers == {"atomic", "complex", "throws"}

WithClassifier(config, classifier) == [config EXCEPT !.classifier = classifier]

\* What a custom classifier returns
customClassification(classifier) ==
    [needsDecomposition |-> classifier = "complex", complexity |-> 5,
     questionType |-> "factual", reasoning |-> "custom"]

DefaultMakerConfig ==
    MakerConfig(Absent, Absent, Absent, Absent, Absent, Absent, DefaultFilterConfig)

\* The provider of a MakerConfig: an object with a complete method, or a
\* string; and its azure settings
ProviderInstance == [kind |-> "instance"]
ProviderId(id) == [kind |-> "id", id |-> id]
AzureConfig(endpoint, apiVersion) == [endpoint |-> endpoint, apiVersion |-> apiVersion]

\* What a constructor call ends with: the object built, or the Error thrown
Constructed(v) == [done |-> TRUE, thrown |-> FALSE, value |-> v]
ConstructorThrew(message, detail) ==
    [done |-> TRUE, thrown |-> TRUE, message |-> message, detail |-> detail]

\* initClient of a provider class, run by its constructor: the SDK package is
\* required and its client built, and any failure is thrown as the class's
\* 'SDK not found' error. sdks are the packages whose client can be built.
initClient(providerClass, package, sdks) ==
    IF package \in sdks THEN Constructed(providerClass)
    ELSE ConstructorThrew(
             IF package = "openai"
             THEN "OpenAI SDK not found. Please install it: npm install openai"
             ELSE "Anthropic SDK not found. Please install it: npm install @anthropic-ai/sdk",
             "")

\* A mutant of createProvider that leaves an unknown identifier for the
\* first call to find
createProviderDeferred(provider, azure, sdks) ==
    IF provider.kind = "instance" THEN Constructed("custom")
    ELSE CASE provider.id = "openai" -> initClient("OpenAIProvider", "openai", sdks)
           [] provider.id = "anthropic" ->
                initClient("AnthropicProvider", "@anthropic-ai/sdk", sdks)
           [] provider.id = "azure" ->
                IF \/ azure = Absent
                   \/ ~Truthy(azure[1].endpoint)
                   \/ ~Truthy(azure[1].apiVersion)
                THEN ConstructorThrew("Azure provider requires azure.endpoint and azure.apiVersion configuration", "")
                ELSE initClient("AzureOpenAIProvider", "openai", sdks)
           [] OTHER -> Constructed("unresolved")

\* Maker.createProvider: the provider object is used as it is; a string
\* selects the provider class, whose constructor returns or throws, and any
\* other string throws
createProvider(provider, azure, sdks) ==
    IF provider.kind = "instance" THEN Constructed("custom")
    ELSE CASE provider.id = "openai" -> initClient("OpenAIProvider", "openai", sdks)
           [] provider.id = "anthropic" ->
                initClient("AnthropicProvider", "@anthropic-ai/sdk", sdks)
           [] provider.id = "azure" ->
                IF \/ azure = Absent
                   \/ ~Truthy(azure[1].endpoint)
                   \/ ~Truthy(azure[1].apiVersion)
                THEN ConstructorThrew("Azure provider requires azure.endpoint and azure.apiVersion configuration", "")
                ELSE initClient("AzureOpenAIProvider", "openai", sdks)
           [] OTHER -> ConstructorThrew("Unknown provider: ", provider.id)

\* The Maker constructor: createProvider throws, or the instance holds the
\* configuration and the provider
newMaker(provider, azure, config, sdks) ==
    LET created == createProvider(provider, azure, sdks)
    IN  IF created.thrown THEN created
        ELSE Constructed([config |-> config, provider |-> created.value])

\* Contents a provider call can return besides ObjectContent and TextContent:
\* null, a classification object, a decomposition object, a synthesis object.
NullContent == [kind |-> "null"]
ClassificationContent(needsDecomposition, complexity, questionType) ==
    [kind |-> "object", needsDecomposition |-> needsDecomposition,
     complexity |-> complexity, questionType |-> questionType, reasoning |-> Absent]
DecompositionContent(subQuestions, synthesisStrategy) ==
    [kind |-> "object", subQuestions |-> subQuestions,
     synthesisStrategy |-> synthesisStrategy]
SynthesisContent(finalAnswer, answer, confidence) ==
    [kind |-> "object", finalAnswer |-> finalAnswer, answer |-> answer,
     confidence |-> confidence]

\* parseClassification
parseClassification(response) ==
    IF response.kind = "object"
    THEN [needsDecomposition |-> OrElse(response.needsDecomposition, FALSE),
          complexity |-> IF OrElse(response.complexity, 0) = 0 THEN 5
                         ELSE response.complexity[1],
          questionType |-> OrIfFalsy(response.questionType, "factual"),
          reasoning |-> OrIfFalsy(response.reasoning, "")]
    ELSE [needsDecomposition |-> FALSE, complexity |-> 5, questionType |-> "factual"]

\* `sq${index + 1}`
SqId(index) == <<"sq1", "sq2", "sq3", "sq4">>[index + 1]

\* parseDecomposition
parseDecomposition(response) ==
    IF response.kind = "object"
    THEN [subQuestions |->
              [i \in 1..Len(OrElse(response.subQuestions, <<>>)) |->
                  [id |-> OrIfFalsy(response.subQuestions[1][i].id, SqId(i - 1)),
                   question |-> OrIfFalsy(response.subQuestions[1][i].question, ""),
                   dependencies |-> OrElse(response.subQuestions[1][i].dependencies, <<>>),
                   type |-> OrIfFalsy(response.subQuestions[1][i].type, "factual"),
                   index |-> i - 1]],
          synthesisStrategy |-> OrIfFalsy(response.synthesisStrategy, "combine")]
    ELSE [subQuestions |-> <<>>, synthesisStrategy |-> "combine"]

\* Decomposer.createSingleSubQuestion
createSingleSubQuestion(question, type) ==
    [id |-> "sq1", question |-> question, dependencies |-> <<>>,
     type |-> type, index |-> 0]

\* A mutant of decomposeDisabled that keeps the default strategy
decomposeDisabledCombine(question) ==
    [subQuestions |-> <<createSingleSubQuestion(question, "factual")>>,
     synthesisStrategy |-> "combine",
     classification |-> [needsDecomposition |-> FALSE, complexity |-> 1,
                         questionType |-> "factual"]]

\* Decomposer.decompose when decomposition is disabled
decomposeDisabled(question) ==
    [subQuestions |-> <<createSingleSubQuestion(question, "factual")>>,
     synthesisStrategy |-> "none",
     classification |-> [needsDecomposition |-> FALSE, complexity |-> 1,
                         questionType |-> "factual"]]

\* Decomposer.decompose when the classification needs no decomposition
decomposeAtomic(question, classification_) ==
    [subQuestions |-> <<createSingleSubQuestion(question, classification_.questionType)>>,
     synthesisStrategy |-> "none",
     classification |-> classification_]

\* A mutant of slice that keeps the last elements
sliceLast(s, end) ==
    IF end < 0
    THEN SubSeq(s, Len(s) - (IF Len(s) + end > 0 THEN Len(s) + end ELSE 0) + 1, Len(s))
    ELSE SubSeq(s, Len(s) - (IF end < Len(s) THEN end ELSE Len(s)) + 1, Len(s))

\* Array.prototype.slice(0, end): the first end elements, and for a
\* negative end all but the last -end
slice(s, end) ==
    IF end < 0
    THEN SubSeq(s, 1, IF Len(s) + end > 0 THEN Len(s) + end ELSE 0)
    ELSE SubSeq(s, 1, IF end < Len(s) THEN end ELSE Len(s))

\* A mutant of decomposeParsed without the fallback for an empty plan
decomposeParsedNoFallback(question, classification_, maxSubQuestions, response) ==
    LET parsed == parseDecomposition(response)
    IN  [subQuestions |-> IF Len(parsed.subQuestions) > maxSubQuestions
                          THEN slice(parsed.subQuestions, maxSubQuestions)
                          ELSE parsed.subQuestions,
         synthesisStrategy |-> parsed.synthesisStrategy,
         classification |-> classification_]

\* Decomposer.decompose after the decomposition call has returned response
decomposeParsed(question, classification_, maxSubQuestions, response) ==
    LET parsed == parseDecomposition(response)
        subQuestions ==
            IF Len(parsed.subQuestions) > maxSubQuestions
            THEN slice(parsed.subQuestions, maxSubQuestions)
            ELSE parsed.subQuestions
    IN  IF Len(subQuestions) = 0
        THEN decomposeAtomic(question, classification_)
        ELSE [subQuestions |-> subQuestions,
              synthesisStrategy |-> parsed.synthesisStrategy,
              classification |-> classification_]

\* parseSynthesis
parseSynthesis(response) ==
    CASE response.kind = "object" ->
            [answer |-> IF Truthy(response.finalAnswer) THEN response.finalAnswer[1]
                        ELSE IF Truthy(response.answer) THEN response.answer[1]
                        ELSE <<>>,
             confidence |-> OrIfFalsy(response.confidence, "medium")]
      [] response.kind = "text" ->
            [answer |-> response.text, confidence |-> "medium"]
      [] OTHER ->
            [answer |-> <<>>, confidence |-> "low"]

\* How many sub-answers have confidence level
ConfidenceCount(subAnswers, level) ==
    Cardinality({i \in 1..Len(subAnswers) : subAnswers[i].confidence = level})

\* A mutant of calculateConfidence that rolls up the sub-answers only
calculateConfidenceSubAnswersOnly(synthesisConfidence, subAnswers) ==
    IF ConfidenceCount(subAnswers, "low") > 0
    THEN "low"
    ELSE IF ConfidenceCount(subAnswers, "medium") > ConfidenceCount(subAnswers, "high")
    THEN "medium"
    ELSE "high"

\* Synthesizer.calculateConfidence
calculateConfidence(synthesisConfidence, subAnswers) ==
    IF synthesisConfidence = "low" \/ ConfidenceCount(subAnswers, "low") > 0
    THEN "low"
    ELSE IF \/ synthesisConfidence = "medium"
            \/ ConfidenceCount(subAnswers, "medium") > ConfidenceCount(subAnswers, "high")
    THEN "medium"
    ELSE "high"

\* The answers that are not blank, joined with one space
RECURSIVE JoinAnswers(_)
JoinAnswers(subAnswers) ==
    IF subAnswers = <<>> THEN <<>>
    ELSE LET rest == JoinAnswers(Tail(subAnswers))
             first == Head(subAnswers).answer
         IN  IF Trim(first) = <<>> THEN rest
             ELSE IF rest = <<>> THEN first
             ELSE first \o <<" ">> \o rest

\* Synthesizer.fallbackSynthesis
fallbackSynthesis(subAnswers) ==
    IF Len(subAnswers) = 0 THEN UnableToDetermine
    ELSE IF Len(subAnswers) = 1 THEN subAnswers[1].answer
    ELSE JoinAnswers(subAnswers)

\* A mutant of synthesizeCallsProvider that also calls for one sub-answer
synthesizeCallsProviderForOne(enabled, subAnswers) == enabled /\ Len(subAnswers) >= 1

\* Synthesizer.synthesize calls the provider exactly when synthesis is
\* enabled and there are two sub-answers or more
synthesizeCallsProvider(enabled, subAnswers) == enabled /\ Len(subAnswers) >= 2

\* Synthesizer.synthesize on the paths without a provider call
synthesizeDirect(enabled, subAnswers) ==
    IF ~enabled \/ Len(subAnswers) = 0
    THEN [answer |-> IF Len(subAnswers) = 0 THEN UnableToDetermine
                     ELSE subAnswers[1].answer,
          confidence |-> IF Len(subAnswers) = 0 THEN "low"
                         ELSE subAnswers[1].confidence]
    ELSE [answer |-> subAnswers[1].answer, confidence |-> subAnswers[1].confidence]

\* Synthesizer.synthesize after the synthesis call has returned response
synthesizeParsed(response, subAnswers) ==
    LET parsed == parseSynthesis(response)
    IN  [answer |-> IF parsed.answer # <<>> THEN parsed.answer
                    ELSE fallbackSynthesis(subAnswers),
         confidence |-> calculateConfidence(parsed.confidence, subAnswers)]

\* The sum and the minimum of a field of the sub-results' votingStats
RECURSIVE SumOf(_, _)
SumOf(subResults_, field) ==
    IF subResults_ = <<>> THEN 0
    ELSE Head(subResults_).votingStats[field] + SumOf(Tail(subResults_), field)

MinOf(subResults_, field) ==
    CHOOSE m \in {subResults_[i].votingStats[field] : i \in 1..Len(subResults_)} :
        \A i \in 1..Len(subResults_) : m <= subResults_[i].votingStats[field]

\* A mutant of aggregateVotingStats that sums winningVoteCount and margin
\* like the other fields
aggregateVotingStatsSumsAll(subResults_, engineK) ==
    IF Len(subResults_) = 0
    THEN [totalVotes |-> 0, validVotes |-> 0, redFlaggedVotes |-> 0,
          winningVoteCount |-> 0, margin |-> 0, k |-> engineK]
    ELSE IF Len(subResults_) = 1
    THEN subResults_[1].votingStats
    ELSE [totalVotes |-> SumOf(subResults_, "totalVotes"),
          validVotes |-> SumOf(subResults_, "validVotes"),
          redFlaggedVotes |-> SumOf(subResults_, "redFlaggedVotes"),
          winningVoteCount |-> SumOf(subResults_, "winningVoteCount"),
          margin |-> SumOf(subResults_, "margin"),
          k |-> engineK]

\* A mutant of aggregateVotingStats that reports the constructor's engine's
\* k for a single sub-result too
aggregateVotingStatsEngineK(subResults_, engineK) ==
    IF Len(subResults_) = 0
    THEN [totalVotes |-> 0, validVotes |-> 0, redFlaggedVotes |-> 0,
          winningVoteCount |-> 0, margin |-> 0, k |-> engineK]
    ELSE IF Len(subResults_) = 1
    THEN [subResults_[1].votingStats EXCEPT !.k = engineK]
    ELSE [totalVotes |-> SumOf(subResults_, "totalVotes"),
          validVotes |-> SumOf(subResults_, "validVotes"),
          redFlaggedVotes |-> SumOf(subResults_, "redFlaggedVotes"),
          winningVoteCount |-> MinOf(subResults_, "winningVoteCount"),
          margin |-> MinOf(subResults_, "margin"),
          k |-> engineK]

\* Maker.aggregateVotingStats; engineK is the k of the engine built by the
\* constructor
aggregateVotingStats(subResults_, engineK) ==
    IF Len(subResults_) = 0
    THEN [totalVotes |-> 0, validVotes |-> 0, redFlaggedVotes |-> 0,
          winningVoteCount |-> 0, margin |-> 0, k |-> engineK]
    ELSE IF Len(subResults_) = 1
    THEN subResults_[1].votingStats
    ELSE [totalVotes |-> SumOf(subResults_, "totalVotes"),
          validVotes |-> SumOf(subResults_, "validVotes"),
          redFlaggedVotes |-> SumOf(subResults_, "redFlaggedVotes"),
          winningVoteCount |-> MinOf(subResults_, "winningVoteCount"),
          margin |-> MinOf(subResults_, "margin"),
          k |-> engineK]

\* A mutant of calculateOverallConfidence that does not look at
\* consensusReached
calculateOverallConfidenceNoConsensus(subResults_, synthesisConfidence) ==
    IF Len(subResults_) = 0 THEN "low"
    ELSE IF \/ \E i \in 1..Len(subResults_) : subResults_[i].confidence = "low"
            \/ synthesisConfidence = "low"
    THEN "low"
    ELSE IF \/ 2 * ConfidenceCount(subResults_, "medium") > Len(subResults_)
            \/ synthesisConfidence = "medium"
    THEN "medium"
    ELSE "high"

\* Maker.calculateOverallConfidence
calculateOverallConfidence(subResults_, synthesisConfidence) ==
    IF Len(subResults_) = 0 THEN "low"
    ELSE IF \/ \E i \in 1..Len(subResults_) :
                  subResults_[i].confidence = "low" \/ ~subResults_[i].consensusReached
            \/ synthesisConfidence = "low"
    THEN "low"
    ELSE IF \/ 2 * ConfidenceCount(subResults_, "medium") > Len(subResults_)
            \/ synthesisConfidence = "medium"
    THEN "medium"
    ELSE "high"

\* The SubQuestionResult that ask makes of a session's result
SubQuestionResult(sq, result) ==
    [question |-> sq.question,
     answer |-> IF result.winner = Null THEN UnableToDetermine ELSE result.winner,
     confidence |-> IF result.confidence = NoConfidence THEN "low"
                    ELSE result.confidence,
     consensusReached |-> result.consensusReached,
     votingStats |-> result.stats]

\* The MakerResult that ask returns (executionTimeMs is left out)
MakerResult(plan, subResults_, synthesized, engineK) ==
    [answer |-> synthesized.answer,
     confidence |-> calculateOverallConfidence(subResults_, synthesized.confidence),
     consensusReached |-> \A i \in 1..Len(subResults_) : subResults_[i].consensusReached,
     isDecomposed |-> Len(plan.subQuestions) > 1,
     subQuestions |-> subResults_,
     synthesisStrategy |-> plan.synthesisStrategy,
     votingStats |-> aggregateVotingStats(subResults_, engineK),
     totalTokens |-> 0]

\* An event emitted by ask
Event(type, payload) == [type |-> type, payload |-> payload]

-----------------------------------------------------------------------------
(* The states in which a group of variables is not in use *)

IdleNorm   == nInput = <<>> /\ nResult = Pending
IdleFilter == /\ fConfig = DefaultFilterConfig
              /\ fAnswer = <<>> /\ fParse = TRUE /\ fResult = Pending
              /\ fValidatorCalls = 0
IdleDW     == dK = DefaultK /\ dVotes = <<>> /\ dResult = Pending
IdleVote   == /\ k = DefaultK /\ maxVotes = DefaultMaxVotes
              /\ rfConfig = DefaultFilterConfig
              /\ voteCounts = <<>> /\ allVotes = <<>> /\ validVoteCount = 0
              /\ voteIndex = 0 /\ onVoteCalls = <<>>
              /\ vResult = Pending /\ vError = FALSE
IdleAsk    == /\ aConfig = DefaultMakerConfig /\ aQuestion = "" /\ aPc = "idle"
              /\ classification = Pending /\ decomposition = Pending
              /\ subResults = <<>> /\ events = <<>>
              /\ oracleCalls = 0 /\ aResult = Pending /\ outstanding = <<>>
IdleStage  == /\ pArgs = Pending /\ pCalls = 0
              /\ pResponse = <<>> /\ pResult = Pending /\ otherAsk = NoAsk

-----------------------------------------------------------------------------
(* SpecNorm: normalizeAnswer applied to every string of the bound *)

InitNorm ==
    /\ call = "normalizeAnswer"
    /\ nInput \in SeqsUpTo(Chars, MaxStrLen)
    /\ nResult = Pending
    /\ IdleFilter /\ IdleDW /\ IdleVote /\ IdleAsk /\ IdleStage

NormalizeCall ==
    /\ call = "normalizeAnswer"
    /\ nResult = Pending
    /\ nResult' = Returned(normalizeAnswer(nInput))
    /\ UNCHANGED <<call, nInput, filterVars, dwVars, voteVars, askVars, stageVars>>

NextNorm == NormalizeCall

SpecNorm == InitNorm /\ [][NextNorm]_vars

-----------------------------------------------------------------------------
(* SpecFilter: RedFlagFilter.check applied under every configuration *)

\* n copies of character c
Repeat(c, n) == [i \in 1..n |-> c]

\* The answers given to the filter: a body of one repeated character, with
\* or without whitespace around it.
FilterAnswers ==
    {Repeat(" ", l) \o Repeat(c, n) \o Repeat(" ", t) :
        l \in 0..1, c \in {"P", "l"}, n \in 0..MaxAnswerLen, t \in 0..1}

FilterConfigs ==
    [minChars : 0..MaxMinChars, maxTokens : 0..MaxMaxTokens, validator : Validators]

InitFilter ==
    /\ call = "check"
    /\ fConfig \in FilterConfigs
    /\ fAnswer \in FilterAnswers
    /\ fParse \in BOOLEAN
    /\ fResult = Pending
    /\ fValidatorCalls = 0
    /\ IdleNorm /\ IdleDW /\ IdleVote /\ IdleAsk /\ IdleStage

CheckCall ==
    /\ call = "check"
    /\ fResult = Pending
    /\ LET run == checkRun(fConfig, fAnswer, fParse)
       IN  /\ fResult' = Returned(run.result)
           /\ fValidatorCalls' = fValidatorCalls + (IF run.validatorCalled THEN 1 ELSE 0)
    /\ UNCHANGED <<call, fConfig, fAnswer, fParse, normVars, dwVars, voteVars, askVars, stageVars>>

NextFilter == CheckCall

SpecFilter == InitFilter /\ [][NextFilter]_vars

-----------------------------------------------------------------------------
(* SpecDW: determineWinner applied to every vote list of the bound *)

\* The votes given to determineWinner (the fields it reads): "P" and "p."
\* share the key "p", "L" has the key "l", "." has the empty key.
DWVotes ==
    {[answer |-> <<"P">>, confidence |-> "medium", redFlagged |-> FALSE],
     [answer |-> <<"p", ".">>, confidence |-> "high", redFlagged |-> FALSE],
     [answer |-> <<"L">>, confidence |-> "low", redFlagged |-> FALSE],
     [answer |-> <<"L">>, confidence |-> "high", redFlagged |-> TRUE],
     [answer |-> <<".">>, confidence |-> "high", redFlagged |-> FALSE]}

InitDW ==
    /\ call = "determineWinner"
    /\ dK \in 1..MaxK
    /\ dVotes \in SeqsUpTo(DWVotes, MaxVoteList)
    /\ dResult = Pending
    /\ IdleNorm /\ IdleFilter /\ IdleVote /\ IdleAsk /\ IdleStage

DetermineWinnerCall ==
    /\ call = "determineWinner"
    /\ dResult = Pending
    /\ dResult' = Returned(determineWinner(dVotes, dK))
    /\ UNCHANGED <<call, dK, dVotes, normVars, filterVars, voteVars, askVars, stageVars>>

NextDW == DetermineWinnerCall

SpecDW == InitDW /\ [][NextDW]_vars

-----------------------------------------------------------------------------
(* Spec: one session of voteUntilConsensus against every oracle *)

\* The filter configurations of a session: "P", "L" and "." are admitted
\* with minChars 1 and rejected with minChars 2; five characters are more
\* than one token.
SessionFilterConfigs ==
    {[minChars |-> m, maxTokens |-> 1, validator |-> "none"] : m \in 1..2}

\* What the oracle answers to one call
Responses ==
    {Throws,
     TextContent(<<"P", "p">>),
     ObjectNoAnswer,
     ObjectContent(<<"P">>, "medium"),
     ObjectContent(<<"p", ".">>, "high"),
     ObjectContent(<<"L">>, "absent"),
     ObjectContent(<<"l", "!">>, "low"),
     ObjectContent(<<".">>, "high"),
     ObjectContent(<<"l", "l", "l", "l", "l">>, "high")}

InitVote ==
    /\ k \in 1..MaxK
    /\ maxVotes \in (1..MaxMaxVotes) \cup {DefaultMaxVotes}
    /\ rfConfig \in SessionFilterConfigs
    /\ voteCounts = <<>>
    /\ allVotes = <<>>
    /\ validVoteCount = 0
    /\ voteIndex = 0
    /\ onVoteCalls = <<>>
    /\ vResult = Pending
    /\ vError = FALSE

Init ==
    /\ call = "voteUntilConsensus"
    /\ InitVote /\ IdleNorm /\ IdleFilter /\ IdleDW /\ IdleAsk /\ IdleStage

\* A mutant of onVote in which the final sample is not reported: the
\* result is returned before the callback
onVoteNotOnReturn(calls, next) ==
    IF next.result.done THEN calls
    ELSE Append(calls,
                [voteIndex |-> next.allVotes[Len(next.allVotes)].voteIndex,
                 redFlagged |-> next.allVotes[Len(next.allVotes)].redFlagged,
                 redFlagReason |-> next.allVotes[Len(next.allVotes)].redFlagReason])

\* onVote?.(vote, voteCounts), called in every round on the vote just
\* pushed: the log of the calls made, with what the callback reads of the vote
onVote(calls, next) ==
    Append(calls,
           [voteIndex |-> next.allVotes[Len(next.allVotes)].voteIndex,
            redFlagged |-> next.allVotes[Len(next.allVotes)].redFlagged,
            redFlagReason |-> next.allVotes[Len(next.allVotes)].redFlagReason])

\* One round of the loop of voteUntilConsensus on the session's variables:
\* the oracle, called once at the temperature of this voteIndex, gives
\* response; the sample is pushed, filtered, tallied, reported to onVote and
\* tested. An exception leaving generateVote leaves the session.
SessionStep(response) ==
    \E generated \in {generateVote(response, temperatureFor(voteIndex), voteIndex)} :
        IF generated.thrown
        THEN /\ vError' = TRUE
             /\ UNCHANGED <<voteCounts, allVotes, validVoteCount, voteIndex,
                            onVoteCalls, vResult>>
        ELSE \E next \in {voteIteration(k, maxVotes, rfConfig, voteCounts,
                                        allVotes, validVoteCount, generated.vote)} :
               /\ voteCounts' = next.voteCounts
               /\ allVotes' = next.allVotes
               /\ validVoteCount' = next.validVoteCount
               /\ voteIndex' = voteIndex + 1
               /\ onVoteCalls' = onVote(onVoteCalls, next)
               /\ vResult' = next.result
               /\ UNCHANGED vError

\* A direct call of voteUntilConsensus draws one more sample. The model stops
\* drawing after MaxSamples samples.
DrawSample ==
    /\ call = "voteUntilConsensus"
    /\ vResult = Pending /\ ~vError
    /\ Len(allVotes) < MaxSamples
    /\ \E response \in Responses : SessionStep(response)
    /\ UNCHANGED <<call, k, maxVotes, rfConfig, normVars, filterVars, dwVars, askVars, stageVars>>

Next == DrawSample

Spec == Init /\ [][Next]_vars

-----------------------------------------------------------------------------
(* SpecEngine: both entry points of the engine, a voteUntilConsensus       *)
(* session or a determineWinner call                                       *)

InitEngine == Init \/ InitDW

NextEngine == DrawSample \/ DetermineWinnerCall

SpecEngine == InitEngine /\ [][NextEngine]_vars

-----------------------------------------------------------------------------
(* SpecObserved: a voteUntilConsensus session called with an onVote        *)
(* callback of the caller's                                                *)

\* What the oracle answers to one call of the observed session
ObservedResponses ==
    {Throws, ObjectContent(<<"P">>, "high"), ObjectContent(<<"L">>, "absent"),
     ObjectContent(<<".">>, "high")}

InitObserved ==
    /\ call = "voteUntilConsensus(onVote)"
    /\ k \in 1..MaxK
    /\ maxVotes \in 1..MaxMaxVotes
    /\ rfConfig = [minChars |-> 1, maxTokens |-> 1, validator |-> "none"]
    /\ voteCounts = <<>> /\ allVotes = <<>> /\ validVoteCount = 0
    /\ voteIndex = 0 /\ onVoteCalls = <<>>
    /\ vResult = Pending /\ vError = FALSE
    /\ IdleNorm /\ IdleFilter /\ IdleDW /\ IdleAsk /\ IdleStage

\* One round of the loop: the sample is drawn, and the callback does one of
\* the things a callback can do with its arguments
DrawSampleObserved ==
    /\ call = "voteUntilConsensus(onVote)"
    /\ vResult = Pending
    /\ Len(allVotes) < MaxSamples
    /\ \E response \in ObservedResponses, effect \in CallbackEffects :
       \E next \in {voteIterationObserved(k, maxVotes, rfConfig, voteCounts, allVotes,
                        validVoteCount,
                        generateVote(response, temperatureFor(voteIndex), voteIndex).vote,
                        effect)} :
          /\ voteCounts' = next.voteCounts
          /\ allVotes' = next.allVotes
          /\ validVoteCount' = next.validVoteCount
          /\ voteIndex' = voteIndex + 1
          /\ onVoteCalls' = onVote(onVoteCalls, next)
          /\ vResult' = next.result
    /\ UNCHANGED <<call, k, maxVotes, rfConfig, vError,
                   normVars, filterVars, dwVars, askVars, stageVars>>

NextObserved == DrawSampleObserved

SpecObserved == InitObserved /\ [][NextObserved]_vars

-----------------------------------------------------------------------------
(* SpecAsk: Maker.ask against every oracle *)

AskConfigs ==
    {MakerConfig(de, ms, se, vk, mv, ok, [minChars |-> 1, maxTokens |-> 1,
                                          validator |-> va]) :
        de \in {Absent, Some(FALSE)}, ms \in {Absent, Some(1)},
        se \in {Absent, Some(FALSE)}, vk \in {Absent, Some(1)},
        mv \in {Absent, Some(2)}, ok \in {Absent, Some(2)},
        va \in {"none", "flagPBare"}}
    \cup
    {WithClassifier(MakerConfig(de, Absent, se, Some(1), Some(2), Absent,
                                [minChars |-> 1, maxTokens |-> 1,
                                 validator |-> "none"]), classifier) :
        de \in {Absent, Some(FALSE)}, se \in {Absent, Some(FALSE)},
        classifier \in CustomClassifiers}

Questions == {"Q"}

\* What the oracle answers to the classification call
ClassificationResponses ==
    {Throws, TextContent(<<"P">>), NullContent,
     ClassificationContent(Some(TRUE), Some(7), Some("reasoning")),
     ClassificationContent(Some(TRUE), Absent, Absent),
     ClassificationContent(Absent, Some(0), Some("comparison"))}

\* What the oracle answers to the decomposition call: the first sub-question
\* of a plan declares a dependency on the second
DecompositionResponses ==
    {Throws, TextContent(<<"P">>),
     DecompositionContent(Absent, Absent),
     DecompositionContent(Some(<<>>), Some("merge")),
     DecompositionContent(
         Some(<<[id |-> Some("a"), question |-> Some("Q1"),
                 dependencies |-> Some(<<"sq2">>), type |-> Some("reasoning")],
                [id |-> Absent, question |-> Absent,
                 dependencies |-> Absent, type |-> Absent]>>),
         Absent)}

\* What the oracle answers to a voting call of ask
AskVoteResponses ==
    {Throws, ObjectContent(<<"P">>, "high"), ObjectContent(<<"L">>, "absent")}

\* What the oracle answers to the synthesis call
SynthesisResponses ==
    {Throws, TextContent(<<"P", "L">>), NullContent,
     SynthesisContent(Some(<<"P">>), Some(<<"L">>), Some("high")),
     SynthesisContent(Absent, Some(<<"L">>), Some("low")),
     SynthesisContent(Some(<<>>), Absent, Absent)}

InitAsk ==
    /\ call = "ask"
    /\ aConfig \in AskConfigs
    /\ aQuestion \in Questions
    /\ aPc = "start"
    /\ classification = Pending /\ decomposition = Pending
    /\ subResults = <<>> /\ events = <<>>
    /\ oracleCalls = 0 /\ aResult = Pending /\ outstanding = <<>>
    /\ IdleNorm /\ IdleFilter /\ IdleDW /\ IdleVote /\ IdleStage

\* new VotingEngine({...config.voting, k: options.k ?? config.voting.k}) and
\* the locals of its voteUntilConsensus
StartSession ==
    /\ k' = OrElse(aConfig.optionsK, OrElse(aConfig.votingK, DefaultK))
    /\ maxVotes' = OrElse(aConfig.votingMaxVotes, DefaultMaxVotes)
    /\ rfConfig' = aConfig.redFlags
    /\ voteCounts' = <<>> /\ allVotes' = <<>> /\ validVoteCount' = 0
    /\ voteIndex' = 0 /\ onVoteCalls' = <<>>
    /\ vResult' = Pending /\ vError' = FALSE

\* A provider.complete call of ask that has not been answered yet
Request(purpose, index, voteIndex_, temperature) ==
    [purpose |-> purpose, subQuestionIndex |-> index, voteIndex |-> voteIndex_,
     temperature |-> temperature]

\* A mutant of VoteRequests: the sample and the one after it are requested
\* together
VoteRequestsParallel(index, voteIndex_) ==
    <<Request("vote", index, voteIndex_, temperatureFor(voteIndex_)),
      Request("vote", index, voteIndex_ + 1, temperatureFor(voteIndex_ + 1))>>

\* The calls made when the loop of voteUntilConsensus comes round for the
\* sample voteIndex_ of sub-question index: generateVote awaits one call
VoteRequests(index, voteIndex_) ==
    <<Request("vote", index, voteIndex_, temperatureFor(voteIndex_))>>

\* The outstanding calls once the call being handled has been answered
Answered == IF outstanding = <<>> THEN <<>> ELSE Tail(outstanding)

\* ask runs on to its next await and makes the calls requests there
Issue(requests) ==
    /\ outstanding' = Answered \o requests
    /\ oracleCalls' = oracleCalls + Len(requests)

\* The promise of ask rejects: an exception has left a call it awaits
Reject ==
    /\ aPc' = "rejected"
    /\ Issue(<<>>)
    /\ UNCHANGED <<decomposition, subResults, events, aResult, voteVars>>

VotingStartEvent(plan, index) ==
    Event("votingStart", [subQuestionIndex |-> index,
                          question |-> plan.subQuestions[index + 1].question])

\* decompose has returned plan: ask emits classificationComplete and
\* decomposed, enters the loop over the sub-questions and requests the first
\* sample of the first one
AfterDecompose(plan) ==
    /\ decomposition' = Returned(plan)
    /\ events' = events \o <<Event("classificationComplete", plan.classification),
                             Event("decomposed", plan.subQuestions),
                             VotingStartEvent(plan, 0)>>
    /\ StartSession
    /\ Issue(VoteRequests(0, 0))
    /\ aPc' = "voting"
    /\ UNCHANGED <<subResults, aResult>>

\* A mutant of classifyCalls that asks the provider whatever the classifier
classifyCallsAlways(config) == 1

\* The provider calls of Decomposer.classify: none when the classifier is a
\* function, which is called in place of the provider
classifyCalls(config) == IF config.classifier = "auto" THEN 1 ELSE 0

\* ask is called: decompose returns at once when decomposition is disabled.
\* Otherwise it classifies: with the classifier 'auto' it makes the
\* classification call, and with a custom classifier it calls the function,
\* which throws or returns the classification that decides whether the
\* decomposition call is made.
AskStart ==
    /\ call = "ask" /\ aPc = "start"
    /\ IF ~OrElse(aConfig.decompositionEnabled, TRUE)
       THEN AfterDecompose(decomposeDisabled(aQuestion)) /\ UNCHANGED classification
       ELSE IF classifyCalls(aConfig) = 1
       THEN /\ Issue(<<Request("classify", 0, 0, TempZero)>>)
            /\ aPc' = "classify"
            /\ UNCHANGED <<classification, decomposition, subResults, events,
                           aResult, voteVars>>
       ELSE IF aConfig.classifier = "throws"
       THEN Reject /\ UNCHANGED classification
       ELSE \E custom \in {customClassification(aConfig.classifier)} :
                /\ classification' = Returned(custom)
                /\ IF ~custom.needsDecomposition
                   THEN AfterDecompose(decomposeAtomic(aQuestion, custom))
                   ELSE /\ Issue(<<Request("decompose", 0, 0, TempZero)>>)
                        /\ aPc' = "decompose"
                        /\ UNCHANGED <<decomposition, subResults, events,
                                       aResult, voteVars>>
    /\ UNCHANGED <<call, aConfig, aQuestion, normVars, filterVars, dwVars, stageVars>>

\* The classification call returns or throws
AskClassify ==
    /\ call = "ask" /\ aPc = "classify"
    /\ outstanding # <<>> /\ Head(outstanding).purpose = "classify"
    /\ \E response \in ClassificationResponses :
         IF response.kind = "throw"
         THEN Reject /\ UNCHANGED classification
         ELSE \E parsed \in {parseClassification(response)} :
                /\ classification' = Returned(parsed)
                /\ IF ~parsed.needsDecomposition
                   THEN AfterDecompose(decomposeAtomic(aQuestion, parsed))
                   ELSE /\ Issue(<<Request("decompose", 0, 0, TempZero)>>)
                        /\ aPc' = "decompose"
                        /\ UNCHANGED <<decomposition, subResults, events,
                                       aResult, voteVars>>
    /\ UNCHANGED <<call, aConfig, aQuestion, normVars, filterVars, dwVars, stageVars>>

\* The decomposition call returns or throws
AskDecompose ==
    /\ call = "ask" /\ aPc = "decompose"
    /\ outstanding # <<>> /\ Head(outstanding).purpose = "decompose"
    /\ \E response \in DecompositionResponses :
         IF response.kind = "throw"
         THEN Reject
         ELSE AfterDecompose(decomposeParsed(aQuestion, classification.value,
                  OrElse(aConfig.maxSubQuestions, DefaultMaxSubQuestions), response))
    /\ UNCHANGED <<call, aConfig, aQuestion, classification,
                   normVars, filterVars, dwVars, stageVars>>

\* The events that ask's onVote callback emits for one vote
VoteEvents(index, vote, counts) ==
    <<Event("voteProgress",
            [subQuestionIndex |-> index, voteIndex |-> vote.voteIndex,
             voteCounts |-> [i \in 1..Len(counts) |->
                                [key |-> counts[i].key, count |-> counts[i].count]],
             redFlagged |-> vote.redFlagged]),
      Event("voteCollected",
            [subQuestionIndex |-> index, voteIndex |-> vote.voteIndex,
             redFlagged |-> vote.redFlagged])>>
    \o (IF vote.redFlagged /\ vote.redFlagReason # "none"
        THEN <<Event("redFlagged", [answer |-> vote.answer,
                                    reason |-> vote.redFlagReason])>>
        ELSE <<>>)

\* The call for a sample of the current sub-question's session returns or
\* throws: the round of the loop runs and, unless the session returns, the
\* next sample is requested. The model stops drawing after MaxAskSamples
\* samples.
AskDrawSample ==
    /\ call = "ask" /\ aPc = "voting"
    /\ vResult = Pending /\ ~vError
    /\ Len(allVotes) < MaxAskSamples
    /\ outstanding # <<>> /\ Head(outstanding).purpose = "vote"
    /\ \E response \in AskVoteResponses : SessionStep(response)
    /\ Issue(IF vError' \/ vResult'.done THEN <<>>
             ELSE VoteRequests(Len(subResults), voteIndex'))
    /\ events' = IF vError' THEN events
                 ELSE events \o VoteEvents(Len(subResults),
                                           allVotes'[Len(allVotes')], voteCounts')
    /\ UNCHANGED <<call, k, maxVotes, rfConfig, aConfig, aQuestion, aPc,
                   classification, decomposition, subResults, aResult,
                   normVars, filterVars, dwVars, stageVars>>

\* A mutant of Finish that emits complete before synthesisComplete
FinishCompleteFirst(results, synthesized, emitted) ==
    \E result \in {MakerResult(decomposition.value, results, synthesized,
                               OrElse(aConfig.votingK, DefaultK))} :
        /\ events' = emitted \o <<Event("complete", result),
                                  Event("synthesisComplete",
                                        [answer |-> synthesized.answer])>>
        /\ aResult' = Returned(result)
        /\ aPc' = "resolved"
        /\ Issue(<<>>)

\* synthesize has returned synthesized: ask emits synthesisComplete, builds
\* the MakerResult, emits complete and resolves
Finish(results, synthesized, emitted) ==
    \E result \in {MakerResult(decomposition.value, results, synthesized,
                               OrElse(aConfig.votingK, DefaultK))} :
        /\ events' = emitted \o <<Event("synthesisComplete",
                                        [answer |-> synthesized.answer]),
                                  Event("complete", result)>>
        /\ aResult' = Returned(result)
        /\ aPc' = "resolved"
        /\ Issue(<<>>)

\* voteUntilConsensus has returned (or thrown): ask pushes the sub-result,
\* then starts the next sub-question's session or, after the last one,
\* emits synthesisStart and awaits synthesize, which makes its provider call
\* or none
AskSessionReturn ==
    /\ call = "ask" /\ aPc = "voting"
    /\ vResult.done \/ vError
    /\ IF vError
       THEN Reject
       ELSE \E index \in {Len(subResults)} :
            \E results \in {Append(subResults,
                               SubQuestionResult(decomposition.value.subQuestions[index + 1],
                                                 vResult.value))} :
            \E emitted \in {events \o
                   <<Event("votingComplete",
                           [subQuestionIndex |-> index,
                            consensusReached |-> results[index + 1].consensusReached,
                            answer |-> results[index + 1].answer]),
                     Event("subQuestionResolved",
                           [index |-> index, result |-> results[index + 1]])>>} :
              /\ subResults' = results
              /\ IF index + 1 < Len(decomposition.value.subQuestions)
                 THEN /\ events' = Append(emitted,
                                       VotingStartEvent(decomposition.value, index + 1))
                      /\ StartSession
                      /\ Issue(VoteRequests(index + 1, 0))
                      /\ UNCHANGED <<aPc, aResult>>
                 ELSE /\ events' = Append(emitted,
                                       Event("synthesisStart", [subAnswers |-> results]))
                      /\ aPc' = "synthesize"
                      /\ Issue(IF synthesizeCallsProvider(
                                   OrElse(aConfig.synthesisEnabled, TRUE), results)
                               THEN <<Request("synthesize", 0, 0, TempZero)>>
                               ELSE <<>>)
                      /\ UNCHANGED <<aResult, voteVars>>
    /\ UNCHANGED <<call, aConfig, aQuestion, classification, decomposition,
                   normVars, filterVars, dwVars, stageVars>>

\* ask resumes after `await this.synthesizer.synthesize(...)`: synthesize
\* has returned without a provider call, or its synthesis call returns or
\* throws
AskSynthesize ==
    /\ call = "ask" /\ aPc = "synthesize"
    /\ IF outstanding = <<>>
       THEN Finish(subResults,
                   synthesizeDirect(OrElse(aConfig.synthesisEnabled, TRUE), subResults),
                   events)
       ELSE /\ Head(outstanding).purpose = "synthesize"
            /\ \E response \in SynthesisResponses :
                 IF response.kind = "throw"
                 THEN /\ aPc' = "rejected"
                      /\ Issue(<<>>)
                      /\ UNCHANGED <<events, aResult>>
                 ELSE Finish(subResults, synthesizeParsed(response, subResults), events)
    /\ UNCHANGED <<call, aConfig, aQuestion, classification, decomposition,
                   subResults, voteVars, normVars, filterVars, dwVars, stageVars>>

NextAsk ==
    \/ AskStart \/ AskClassify \/ AskDecompose
    \/ AskDrawSample \/ AskSessionReturn \/ AskSynthesize

SpecAsk == InitAsk /\ [][NextAsk]_vars

-----------------------------------------------------------------------------
(* SpecConcurrent: two ask calls on one Maker, taking turns at their awaits *)

\* The configurations of the Maker that is asked twice: decomposition is
\* disabled, or its classifier is a function that asks for decomposition, so
\* that an ask makes no classification call
ConcurrentConfigs ==
    {WithClassifier(MakerConfig(de, Absent, Absent, Some(1), Some(2), Absent,
                                [minChars |-> 1, maxTokens |-> 1,
                                 validator |-> "none"]), "complex") :
        de \in {Absent, Some(FALSE)}}

\* The ask that is running: what belongs to one call of ask, which is its
\* arguments, its position, the locals of ask and of the voteUntilConsensus
\* it awaits (on an engine made for the sub-question), the events it has
\* emitted and the provider calls it has made. The Maker's fields are its
\* configuration and its stateless parts.
RunningAsk ==
    [aConfig |-> aConfig, aQuestion |-> aQuestion, aPc |-> aPc,
     classification |-> classification, decomposition |-> decomposition,
     subResults |-> subResults, events |-> events, oracleCalls |-> oracleCalls,
     aResult |-> aResult, outstanding |-> outstanding,
     k |-> k, maxVotes |-> maxVotes, rfConfig |-> rfConfig,
     voteCounts |-> voteCounts, allVotes |-> allVotes,
     validVoteCount |-> validVoteCount, voteIndex |-> voteIndex,
     onVoteCalls |-> onVoteCalls, vResult |-> vResult, vError |-> vError]

\* An ask that has been called and has not run yet
CalledAsk(config, question) ==
    [aConfig |-> config, aQuestion |-> question, aPc |-> "start",
     classification |-> Pending, decomposition |-> Pending,
     subResults |-> <<>>, events |-> <<>>, oracleCalls |-> 0,
     aResult |-> Pending, outstanding |-> <<>>,
     k |-> DefaultK, maxVotes |-> DefaultMaxVotes, rfConfig |-> DefaultFilterConfig,
     voteCounts |-> <<>>, allVotes |-> <<>>,
     validVoteCount |-> 0, voteIndex |-> 0,
     onVoteCalls |-> <<>>, vResult |-> Pending, vError |-> FALSE]

\* A mutant of tallyOnResume: the tally is kept on the instance, and an ask
\* goes on with what the other ask left in it
tallyOnResumeOfInstance(own, left) == left

\* The tally an ask goes on with after the other ask has run: its own, the
\* Map that its voteUntilConsensus made (`new Map()`, a local of the call)
tallyOnResume(own, left) == own

InitConcurrent ==
    /\ call = "ask"
    /\ aConfig \in ConcurrentConfigs
    /\ aQuestion = "Q"
    /\ aPc = "start"
    /\ classification = Pending /\ decomposition = Pending
    /\ subResults = <<>> /\ events = <<>>
    /\ oracleCalls = 0 /\ aResult = Pending /\ outstanding = <<>>
    /\ otherAsk = CalledAsk(aConfig, "R")
    /\ pArgs = Pending /\ pCalls = 0 /\ pResponse = <<>> /\ pResult = Pending
    /\ IdleNorm /\ IdleFilter /\ IdleDW /\ IdleVote

\* The running ask is at an await, or has ended or not begun, and the other
\* ask, which has not ended, runs on from where it was. ask awaits a provider
\* call (inside decompose, voteUntilConsensus or synthesize), the return of
\* voteUntilConsensus, whose last sample has been handled and whose result
\* ask has not taken yet, and the return of synthesize.
TakeTurn ==
    /\ call = "ask" /\ otherAsk # NoAsk
    /\ \/ outstanding # <<>>
       \/ aPc \in {"start", "synthesize", "resolved", "rejected"}
       \/ aPc = "voting" /\ (vResult.done \/ vError)
    /\ otherAsk.aPc \notin {"resolved", "rejected"}
    /\ otherAsk' = RunningAsk
    /\ aConfig' = otherAsk.aConfig /\ aQuestion' = otherAsk.aQuestion
    /\ aPc' = otherAsk.aPc
    /\ classification' = otherAsk.classification
    /\ decomposition' = otherAsk.decomposition
    /\ subResults' = otherAsk.subResults
    /\ events' = otherAsk.events /\ oracleCalls' = otherAsk.oracleCalls
    /\ aResult' = otherAsk.aResult /\ outstanding' = otherAsk.outstanding
    /\ k' = otherAsk.k /\ maxVotes' = otherAsk.maxVotes /\ rfConfig' = otherAsk.rfConfig
    /\ voteCounts' = tallyOnResume(otherAsk.voteCounts, voteCounts)
    /\ allVotes' = otherAsk.allVotes /\ validVoteCount' = otherAsk.validVoteCount
    /\ voteIndex' = otherAsk.voteIndex /\ onVoteCalls' = otherAsk.onVoteCalls
    /\ vResult' = otherAsk.vResult /\ vError' = otherAsk.vError
    /\ UNCHANGED <<call, pArgs, pCalls, pResponse, pResult, normVars, filterVars, dwVars>>

NextConcurrent ==
    \/ AskStart \/ AskDecompose
    \/ AskDrawSample \/ AskSessionReturn \/ AskSynthesize
    \/ TakeTurn

SpecConcurrent == InitConcurrent /\ [][NextConcurrent]_vars

-----------------------------------------------------------------------------
(* SpecDecompose: Decomposer.decompose called on its own                   *)
(* SpecSynth: Synthesizer.synthesize called on its own                     *)

\* How a stage called on its own ends: it returns v, or the exception of a
\* provider call leaves it
StageReturned(v) == [done |-> TRUE, thrown |-> FALSE, value |-> v]
StageThrown == [done |-> TRUE, thrown |-> TRUE]

DecomposeArgs ==
    [question : {"Q", "Why?"},
     enabled : {Absent, Some(TRUE), Some(FALSE)},
     maxSubQuestions : {Absent, Some(-1), Some(0), Some(1), Some(2)}]

\* What the oracle answers to the decomposition call of a decompose called
\* on its own: also a plan of three sub-questions, and a plan whose id, type
\* and strategy are empty strings
StageDecompositionResponses ==
    DecompositionResponses \cup
    {DecompositionContent(
         Some(<<[id |-> Absent, question |-> Some("Q1"),
                 dependencies |-> Absent, type |-> Absent],
                [id |-> Absent, question |-> Some("Q2"),
                 dependencies |-> Absent, type |-> Some("calculation")],
                [id |-> Some("c"), question |-> Some("Q3"),
                 dependencies |-> Some(<<"sq1", "sq2">>), type |-> Absent]>>),
         Some("merge")),
     DecompositionContent(
         Some(<<[id |-> Some(""), question |-> Some("Q1"),
                 dependencies |-> Absent, type |-> Some("")],
                [id |-> Some("b"), question |-> Some("Q2"),
                 dependencies |-> Absent, type |-> Absent]>>),
         Some(""))}

InitDecompose ==
    /\ call = "decompose"
    /\ pArgs \in DecomposeArgs
    /\ pCalls = 0 /\ pResponse = <<>> /\ pResult = Pending /\ otherAsk = NoAsk
    /\ IdleNorm /\ IdleFilter /\ IdleDW /\ IdleVote /\ IdleAsk

\* decompose is called: it returns at once when decomposition is disabled;
\* otherwise it makes the classification call and waits for its answer
DecomposeCall ==
    /\ call = "decompose" /\ pResult = Pending /\ pCalls = 0
    /\ IF ~OrElse(pArgs.enabled, TRUE)
       THEN /\ pResult' = StageReturned(decomposeDisabled(pArgs.question))
            /\ UNCHANGED pCalls
       ELSE /\ pCalls' = pCalls + 1
            /\ UNCHANGED pResult
    /\ UNCHANGED <<call, otherAsk, pArgs, pResponse, normVars, filterVars, dwVars, voteVars,
                   askVars>>

\* The classification call returns or throws: decompose throws, returns the
\* question as it is, or, when decomposition is needed, makes the
\* decomposition call and waits for its answer
DecomposeClassify ==
    /\ call = "decompose" /\ pResult = Pending /\ pCalls = 1 /\ pResponse = <<>>
    /\ \E response \in ClassificationResponses :
         /\ pResponse' = <<response>>
         /\ IF response.kind = "throw"
            THEN pResult' = StageThrown /\ UNCHANGED pCalls
            ELSE IF ~parseClassification(response).needsDecomposition
            THEN /\ pResult' = StageReturned(decomposeAtomic(pArgs.question,
                                                             parseClassification(response)))
                 /\ UNCHANGED pCalls
            ELSE /\ pCalls' = pCalls + 1
                 /\ UNCHANGED pResult
    /\ UNCHANGED <<call, otherAsk, pArgs, normVars, filterVars, dwVars, voteVars, askVars>>

\* The decomposition call returns or throws
DecomposeRespond ==
    /\ call = "decompose" /\ pResult = Pending /\ pCalls = 2 /\ Len(pResponse) = 1
    /\ \E response \in StageDecompositionResponses :
         /\ pResponse' = Append(pResponse, response)
         /\ pResult' =
              IF response.kind = "throw" THEN StageThrown
              ELSE StageReturned(decomposeParsed(pArgs.question,
                       parseClassification(pResponse[1]),
                       OrElse(pArgs.maxSubQuestions, DefaultMaxSubQuestions),
                       response))
    /\ UNCHANGED <<call, otherAsk, pArgs, pCalls, normVars, filterVars, dwVars, voteVars,
                   askVars>>

NextDecompose == DecomposeCall \/ DecomposeClassify \/ DecomposeRespond

SpecDecompose == InitDecompose /\ [][NextDecompose]_vars

-----------------------------------------------------------------------------
(* SpecCollect: the deprecated VotingEngine.collectVotes, whose provider   *)
(* calls are all made before any is awaited and return in any order        *)

\* generateDefaultTemperatures(samples): 0 for the first sample, 0.1 after
generateDefaultTemperatures(samples) ==
    [i \in 1..samples |-> IF i = 1 THEN TempZero ELSE TempPointOne]

\* this.temperatures[i] ?? 0.1 for the configured samples and temperatures
collectTemperature(samples, temperatures, i) ==
    LET list == OrElse(temperatures, generateDefaultTemperatures(samples))
    IN  IF i + 1 <= Len(list) THEN list[i + 1] ELSE TempPointOne

\* The VotingConfig of the engine: samples, and temperatures left out, or
\* shorter than samples
CollectArgs ==
    [samples : 0..MaxCollectSamples,
     temperatures : {Absent, Some(<<TempPointOne>>)}]

\* What the oracle answers to a call of collectVotes
CollectResponses == {Throws, ObjectContent(<<"P">>, "high"), TextContent(<<"L">>)}

\* A promise of votePromises: not settled, or fulfilled with the vote that
\* generateVote made of response, after completed other promises
Unsettled == [settled |-> FALSE]
Fulfilled(response, vote, completed) ==
    [settled |-> TRUE, response |-> response, vote |-> vote, completed |-> completed]

NumSettled(promises) == Cardinality({i \in 1..Len(promises) : promises[i].settled})

\* A mutant of PromiseAll that gives the values in the order of fulfilment
PromiseAllByCompletion(promises) ==
    [i \in 1..Len(promises) |->
        promises[CHOOSE j \in 1..Len(promises) : promises[j].completed = i - 1].vote]

\* Promise.all(votePromises), once every promise is fulfilled: the values in
\* the order of the promises
PromiseAll(promises) == [i \in 1..Len(promises) |-> promises[i].vote]

InitCollect ==
    /\ call = "collectVotes"
    /\ pArgs \in CollectArgs
    /\ pCalls = 0 /\ pResponse = <<>> /\ pResult = Pending /\ otherAsk = NoAsk
    /\ IdleNorm /\ IdleFilter /\ IdleDW /\ IdleVote /\ IdleAsk

\* collectVotes is called: Array.from calls generateVote for i = 0 ..
\* samples - 1, and each runs up to its await of provider.complete, so that
\* samples calls are outstanding before any has returned
CollectStart ==
    /\ call = "collectVotes" /\ pResult = Pending
    /\ pCalls = 0 /\ pArgs.samples > 0
    /\ pCalls' = pArgs.samples
    /\ pResponse' = [i \in 1..pArgs.samples |-> Unsettled]
    /\ UNCHANGED <<call, otherAsk, pArgs, pResult, normVars, filterVars, dwVars, voteVars, askVars>>

\* One of the outstanding calls returns or throws, and its generateVote
\* settles its promise; an exception leaving generateVote would reject
\* Promise.all at once
CollectRespond ==
    /\ call = "collectVotes" /\ pResult = Pending
    /\ \E i \in 1..Len(pResponse) : \E response \in CollectResponses :
         /\ ~pResponse[i].settled
         /\ \E made \in {generateVote(response,
                             collectTemperature(pArgs.samples, pArgs.temperatures, i - 1),
                             i - 1)} :
              IF made.thrown
              THEN pResult' = StageThrown /\ UNCHANGED pResponse
              ELSE /\ pResponse' = [pResponse EXCEPT
                          ![i] = Fulfilled(response, made.vote, NumSettled(pResponse))]
                   /\ UNCHANGED pResult
    /\ UNCHANGED <<call, otherAsk, pArgs, pCalls, normVars, filterVars, dwVars, voteVars, askVars>>

\* Every promise is fulfilled: collectVotes returns what Promise.all gives
CollectReturn ==
    /\ call = "collectVotes" /\ pResult = Pending
    /\ Len(pResponse) = pArgs.samples
    /\ NumSettled(pResponse) = Len(pResponse)
    /\ pResult' = StageReturned(PromiseAll(pResponse))
    /\ UNCHANGED <<call, otherAsk, pArgs, pCalls, pResponse, normVars, filterVars, dwVars,
                   voteVars, askVars>>

NextCollect == CollectStart \/ CollectRespond \/ CollectReturn

SpecCollect == InitCollect /\ [][NextCollect]_vars

-----------------------------------------------------------------------------
(* SpecSynth: Synthesizer.synthesize called on its own *)

\* The sub-answers given to synthesize (the fields it reads): an answer or
\* a blank one, at each confidence
SubAnswers ==
    [question : {"Q1"}, answer : {<<"P">>, <<"L">>, <<" ">>},
     confidence : ConfidenceLevels]

SynthArgs ==
    [enabled : {Absent, Some(TRUE), Some(FALSE)},
     subAnswers : SeqsUpTo(SubAnswers, MaxSubAnswers)]

InitSynth ==
    /\ call = "synthesize"
    /\ pArgs \in SynthArgs
    /\ pCalls = 0 /\ pResponse = <<>> /\ pResult = Pending /\ otherAsk = NoAsk
    /\ IdleNorm /\ IdleFilter /\ IdleDW /\ IdleVote /\ IdleAsk

\* synthesize is called: it returns at once without a provider call, or it
\* makes the synthesis call and waits for its answer
SynthesizeCall ==
    /\ call = "synthesize" /\ pResult = Pending /\ pCalls = 0
    /\ IF ~synthesizeCallsProvider(OrElse(pArgs.enabled, TRUE), pArgs.subAnswers)
       THEN /\ pResult' = StageReturned(synthesizeDirect(OrElse(pArgs.enabled, TRUE),
                                                         pArgs.subAnswers))
            /\ UNCHANGED pCalls
       ELSE /\ pCalls' = pCalls + 1
            /\ UNCHANGED pResult
    /\ UNCHANGED <<call, otherAsk, pArgs, pResponse, normVars, filterVars, dwVars, voteVars,
                   askVars>>

\* The synthesis call returns or throws
SynthesizeRespond ==
    /\ call = "synthesize" /\ pResult = Pending /\ pCalls = 1 /\ pResponse = <<>>
    /\ \E response \in SynthesisResponses :
         /\ pResponse' = <<response>>
         /\ pResult' =
              IF response.kind = "throw" THEN StageThrown
              ELSE StageReturned(synthesizeParsed(response, pArgs.subAnswers))
    /\ UNCHANGED <<call, otherAsk, pArgs, pCalls, normVars, filterVars, dwVars, voteVars,
                   askVars>>

NextSynth == SynthesizeCall \/ SynthesizeRespond

SpecSynth == InitSynth /\ [][NextSynth]_vars

-----------------------------------------------------------------------------
(* SpecMaker: new Maker(config), then ask on the instance                  *)

KnownProviderIds == {"openai", "anthropic", "azure"}

\* The strings given as provider: the three identifiers and others
ProviderIds == KnownProviderIds \cup {"unknown", "OpenAI", ""}

AzureConfigs ==
    {Absent,
     Some(AzureConfig(Some(<<"e">>), Some(<<"v">>))),
     Some(AzureConfig(Some(<<>>), Some(<<"v">>))),
     Some(AzureConfig(Some(<<"e">>), Absent))}

\* The configurations of the instances built
ConstructorConfigs ==
    {MakerConfig(de, Absent, Absent, Some(1), mv, Absent,
                 [minChars |-> 1, maxTokens |-> 1, validator |-> "none"]) :
        de \in {Absent, Some(FALSE)}, mv \in {Absent, Some(2)}}

\* The SDK packages the provider classes require
SdkPackages == {"openai", "@anthropic-ai/sdk"}

\* What the constructor is given, and the packages whose client can be built
\* where it runs
ConstructorArgs ==
    [provider : {ProviderInstance} \cup {ProviderId(id) : id \in ProviderIds},
     azure : AzureConfigs,
     config : ConstructorConfigs,
     sdks : SUBSET SdkPackages]

InitMaker ==
    /\ call = "new Maker"
    /\ pArgs \in ConstructorArgs
    /\ pCalls = 0 /\ pResponse = <<>> /\ pResult = Pending /\ otherAsk = NoAsk
    /\ IdleNorm /\ IdleFilter /\ IdleDW /\ IdleVote /\ IdleAsk

\* The constructor runs
ConstructCall ==
    /\ call = "new Maker" /\ pResult = Pending
    /\ pResult' = newMaker(pArgs.provider, pArgs.azure, pArgs.config, pArgs.sdks)
    /\ UNCHANGED <<call, otherAsk, pArgs, pCalls, pResponse,
                   normVars, filterVars, dwVars, voteVars, askVars>>

\* ask is called on the instance the constructor returned
AskOnInstance ==
    /\ call = "new Maker" /\ pResult.done /\ ~pResult.thrown
    /\ call' = "ask"
    /\ aConfig' = pResult.value.config
    /\ aQuestion' \in Questions
    /\ aPc' = "start"
    /\ UNCHANGED <<classification, decomposition, subResults, events, oracleCalls,
                   aResult, outstanding, normVars, filterVars, dwVars, voteVars,
                   stageVars>>

NextMaker ==
    \/ ConstructCall \/ AskOnInstance
    \/ AskStart \/ AskClassify \/ AskDecompose
    \/ AskDrawSample \/ AskSessionReturn \/ AskSynthesize

SpecMaker == InitMaker /\ [][NextMaker]_vars

-----------------------------------------------------------------------------
(* What a list of votes says, counted from the votes themselves *)

\* The key of every vote of a list: its normalized answer, and the empty
\* key for a red-flagged vote. A vote with the empty key is in no bucket.
RECURSIVE VoteKeys(_)
VoteKeys(votes) ==
    IF votes = <<>> THEN <<>>
    ELSE <<IF Head(votes).redFlagged THEN <<>>
           ELSE normalizeAnswer(Head(votes).answer)>> \o VoteKeys(Tail(votes))

KeysOf(keys) == {keys[i] : i \in 1..Len(keys)} \ {<<>>}

KeyCount(keys, key) == Cardinality({i \in 1..Len(keys) : keys[i] = key})

\* The highest bucket count, and the second-highest (0 with fewer than two
\* buckets): the highest among the buckets other than one leading bucket.
TopCount(keys) ==
    IF KeysOf(keys) = {} THEN 0
    ELSE CHOOSE m \in 1..Len(keys) :
             /\ \E key \in KeysOf(keys) : KeyCount(keys, key) = m
             /\ \A key \in KeysOf(keys) : KeyCount(keys, key) <= m

SecondCount(keys) ==
    IF Cardinality(KeysOf(keys)) < 2 THEN 0
    ELSE LET leader == CHOOSE key \in KeysOf(keys) :
                           \A other \in KeysOf(keys) :
                               KeyCount(keys, other) <= KeyCount(keys, key)
         IN  CHOOSE m \in 1..Len(keys) :
                 /\ \E key \in KeysOf(keys) \ {leader} : KeyCount(keys, key) = m
                 /\ \A key \in KeysOf(keys) \ {leader} : KeyCount(keys, key) <= m

\* The position of the first vote of a key: its text is the bucket's answer
FirstOfKey(keys, key) ==
    CHOOSE i \in 1..Len(keys) :
        keys[i] = key /\ \A j \in 1..(i - 1) : keys[j] # key

\* Some answer is ahead of every other by at least kk votes
LeadOfK(keys, kk) ==
    KeysOf(keys) # {} /\ TopCount(keys) >= kk + SecondCount(keys)

NumRedFlagged(votes) == Cardinality({i \in 1..Len(votes) : votes[i].redFlagged})

-----------------------------------------------------------------------------
(* Claims about voteUntilConsensus (Spec) *)

\* C1 as stated: a session draws at most maxVotes samples, and every result
\* it returns has stats.totalVotes <= maxVotes.
C1_AtMostMaxVotesSamples ==
    /\ Len(allVotes) <= maxVotes
    /\ vResult.done => vResult.value.stats.totalVotes <= maxVotes

\* C2: a session goes on while no answer leads by k and returns at the first
\* sample after which one does: while the session runs no answer leads by
\* k; a returned result has consensusReached = true exactly when an answer
\* leads by k, and then the winner is the answer of the leading bucket, the
\* margin is its lead, the last sample drawn is the one that completed the
\* lead, and no sample is drawn after the return.
C2_StopsAtFirstLeadOfK ==
    \A keys \in {VoteKeys(allVotes)} :
        /\ vResult = Pending => ~LeadOfK(keys, k)
        /\ vResult.done =>
             LET r == vResult.value
             IN  /\ r.consensusReached <=> LeadOfK(keys, k)
                 /\ r.stats.totalVotes = Len(allVotes)
                 /\ r.consensusReached =>
                      \A top \in {TopCount(keys)} :
                          /\ normalizeAnswer(r.winner) \in KeysOf(keys)
                          /\ KeyCount(keys, normalizeAnswer(r.winner)) = top
                          /\ r.winner =
                               allVotes[FirstOfKey(keys, normalizeAnswer(r.winner))].answer
                          /\ r.stats.winningVoteCount = top
                          /\ r.stats.margin = top - SecondCount(keys)
                          /\ ~LeadOfK(SubSeq(keys, 1, Len(keys) - 1), k)

\* C2 witness: the answers Paris, London, Paris, Paris with k = 2: the
\* session has returned after exactly 4 samples with the first answer as
\* winner and margin 2.
C2_Witness ==
    /\ vResult.done /\ k = 2 /\ Len(allVotes) = 4
    /\ VoteKeys(allVotes) = << <<"p">>, <<"l">>, <<"p">>, <<"p">> >>
    /\ vResult.value.consensusReached
    /\ vResult.value.winner = allVotes[1].answer
    /\ vResult.value.stats.margin = 2

\* C22: in every result a session returns, stats.winningVoteCount is the
\* highest bucket count and stats.margin is that count minus the
\* second-highest (0 when there is no second bucket); consensusReached is
\* true exactly when margin >= k; and a result with consensusReached = false
\* is the result of the safety cutoff: maxVotes samples or more are drawn.
\* (The cutoff is tested after the lead, so its result never has
\* margin >= k.)
C22_MarginAndConsensus ==
    vResult.done =>
        \A keys \in {VoteKeys(allVotes)} :
            LET stats == vResult.value.stats
            IN  /\ stats.winningVoteCount = TopCount(keys)
                /\ stats.margin = stats.winningVoteCount - SecondCount(keys)
                /\ vResult.value.consensusReached <=> stats.margin >= k
                /\ ~vResult.value.consensusReached => stats.totalVotes >= maxVotes

\* C22 witness: the cutoff result of Paris, London, Paris with k = 3 and
\* maxVotes = 3, which has winningVoteCount 2, a runner-up bucket and margin 1.
C22_Witness ==
    /\ vResult.done /\ k = 3 /\ maxVotes = 3
    /\ VoteKeys(allVotes) = << <<"p">>, <<"l">>, <<"p">> >>
    /\ ~vResult.value.consensusReached
    /\ vResult.value.stats.winningVoteCount = 2
    /\ vResult.value.stats.margin = 1

\* C23 as stated: once maxVotes samples are drawn and no sample is in a
\* bucket (each was rejected or normalized to the empty string), the session
\* has returned consensusReached = false with winner null, no confidence,
\* winningVoteCount 0 and margin 0.
C23_CutoffWithoutBucket ==
    (Len(allVotes) >= maxVotes /\ KeysOf(VoteKeys(allVotes)) = {}) =>
        /\ vResult.done
        /\ ~vResult.value.consensusReached
        /\ vResult.value.winner = Null
        /\ vResult.value.confidence = NoConfidence
        /\ vResult.value.stats.winningVoteCount = 0
        /\ vResult.value.stats.margin = 0

\* C24: the round of a sample that the admission filter rejects adds that
\* one sample to allVotes (so the total count grows by one), marks it
\* red-flagged, calls onVote once, for it, and leaves every tally bucket
\* (key, count, answer, confidence) and validVoteCount as they were.
C24_RejectedSampleFrame ==
    [][(/\ Len(allVotes') = Len(allVotes) + 1
        /\ check(rfConfig, allVotes'[Len(allVotes')].answer,
                 allVotes'[Len(allVotes')].parseSucceeded).redFlagged)
       => /\ SubSeq(allVotes', 1, Len(allVotes)) = allVotes
          /\ allVotes'[Len(allVotes')].redFlagged
          /\ Len(onVoteCalls') = Len(onVoteCalls) + 1
          /\ SubSeq(onVoteCalls', 1, Len(onVoteCalls)) = onVoteCalls
          /\ onVoteCalls'[Len(onVoteCalls')].voteIndex =
                 allVotes'[Len(allVotes')].voteIndex
          /\ onVoteCalls'[Len(onVoteCalls')].redFlagged
          /\ voteCounts' = voteCounts
          /\ validVoteCount' = validVoteCount]_vars

\* C24 witness: after an admitted sample, a sample whose answer has a
\* non-empty normalized form was rejected: one bucket, one valid vote, two
\* samples and two onVote calls.
C24_Witness ==
    /\ Len(allVotes) = 2 /\ vResult = Pending
    /\ ~allVotes[1].redFlagged
    /\ allVotes[2].redFlagged /\ normalizeAnswer(allVotes[2].answer) # <<>>
    /\ Len(voteCounts) = 1 /\ voteCounts[1].count = 1
    /\ validVoteCount = 1
    /\ Len(onVoteCalls) = 2 /\ onVoteCalls[2].redFlagged

\* C25: the round of an admitted sample whose normalized answer is the empty
\* string adds one to validVoteCount and one sample to allVotes, not
\* red-flagged, and leaves every tally bucket as it was: no bucket is
\* created and none is incremented. Every result returned counts such
\* samples in stats.validVotes and stats.totalVotes.
C25_EmptyAnswerCountsAsValid ==
    [][/\ (/\ Len(allVotes') = Len(allVotes) + 1
           /\ ~check(rfConfig, allVotes'[Len(allVotes')].answer,
                     allVotes'[Len(allVotes')].parseSucceeded).redFlagged
           /\ normalizeAnswer(allVotes'[Len(allVotes')].answer) = <<>>)
          => /\ SubSeq(allVotes', 1, Len(allVotes)) = allVotes
             /\ ~allVotes'[Len(allVotes')].redFlagged
             /\ validVoteCount' = validVoteCount + 1
             /\ voteCounts' = voteCounts
       /\ vResult'.done =>
             /\ vResult'.value.stats.totalVotes = Len(allVotes')
             /\ vResult'.value.stats.validVotes =
                    Len(allVotes') - NumRedFlagged(allVotes')]_vars

\* C25 witness: a session admitted the answer "." and then returned a
\* result on one bucket of count 1 with validVotes 2 and totalVotes 2.
C25_Witness ==
    /\ vResult.done /\ Len(allVotes) = 2
    /\ allVotes[1].answer = <<".">> /\ ~allVotes[1].redFlagged
    /\ ~allVotes[2].redFlagged
    /\ Len(voteCounts) = 1 /\ voteCounts[1].count = 1
    /\ vResult.value.stats.validVotes = 2
    /\ vResult.value.stats.totalVotes = 2
    /\ vResult.value.stats.winningVoteCount = 1

\* C26: onVote is called exactly once for every sample drawn, the final one
\* included, in the order of the samples: the i-th call is for the i-th
\* sample and carries voteIndex i - 1, so the calls number as many as the
\* samples and, once a result is returned, as stats.totalVotes.
C26_OnVoteOncePerSample ==
    /\ Len(onVoteCalls) = Len(allVotes)
    /\ \A i \in 1..Len(onVoteCalls) :
          /\ onVoteCalls[i].voteIndex = i - 1
          /\ allVotes[i].voteIndex = i - 1
          /\ onVoteCalls[i].redFlagged = allVotes[i].redFlagged
    /\ vResult.done => Len(onVoteCalls) = vResult.value.stats.totalVotes

\* C26 witness: a returned session of four samples, one rejected, one empty
\* after normalization and two tallied, with onVote calls 0, 1, 2, 3.
C26_Witness ==
    /\ vResult.done /\ Len(allVotes) = 4
    /\ \E i \in 1..3 : allVotes[i].redFlagged
    /\ \E i \in 1..3 : ~allVotes[i].redFlagged /\ normalizeAnswer(allVotes[i].answer) = <<>>
    /\ Len(onVoteCalls) = 4 /\ onVoteCalls[4].voteIndex = 3
    /\ vResult.value.stats.totalVotes = 4

\* C27: determineWinner, of an engine with the same k, applied to the votes
\* of a session that has returned (the rejected ones marked redFlagged)
\* returns the winner, consensusReached, winningVoteCount and margin that
\* the session returned, and the same confidence and vote counts.
C27_DetermineWinnerAgrees ==
    vResult.done =>
        \A direct \in {determineWinner(allVotes, k)} :
            /\ direct.winner = vResult.value.winner
            /\ direct.consensusReached = vResult.value.consensusReached
            /\ direct.stats.winningVoteCount = vResult.value.stats.winningVoteCount
            /\ direct.stats.margin = vResult.value.stats.margin
            /\ direct.confidence = vResult.value.confidence
            /\ direct.stats = vResult.value.stats

\* C27 witness: a session returned without consensus on two buckets, the
\* leader ahead by less than k but with k votes or more, after a rejected
\* sample; determineWinner names the same winner.
C27_Witness ==
    /\ vResult.done /\ ~vResult.value.consensusReached
    /\ Len(voteCounts) = 2
    /\ NumRedFlagged(allVotes) >= 1
    /\ vResult.value.stats.winningVoteCount >= k
    /\ determineWinner(allVotes, k).winner = vResult.value.winner

\* The samples tallied into the bucket of a key: admitted, with that
\* normalized answer
TalliedInto(votes, key) ==
    {i \in 1..Len(votes) :
        ~votes[i].redFlagged /\ normalizeAnswer(votes[i].answer) = key}

\* The highest of the confidences of a set of samples
HighestConfidence(votes, samples) ==
    CHOOSE c \in ConfidenceLevels :
        /\ \E i \in samples : votes[i].confidence = c
        /\ \A i \in samples : confidenceOrder(votes[i].confidence) <= confidenceOrder(c)

\* C30: at every moment of a session each tally bucket's confidence is the
\* highest confidence (high > medium > low) among the samples tallied into
\* it so far, so a sample joining with a higher confidence has replaced it
\* and any other has left it unchanged; and the confidence of a returned
\* result is that of the winner's bucket.
C30_BucketKeepsHighestConfidence ==
    /\ \A b \in 1..Len(voteCounts) :
          /\ TalliedInto(allVotes, voteCounts[b].key) # {}
          /\ voteCounts[b].confidence =
                 HighestConfidence(allVotes, TalliedInto(allVotes, voteCounts[b].key))
    /\ vResult.done =>
          vResult.value.confidence =
              HighestConfidence(allVotes,
                  TalliedInto(allVotes, normalizeAnswer(vResult.value.winner)))

\* C30 witness: a medium sample and then a high sample of the same answer
\* are in one bucket, and the result returned on it has confidence high.
C30_Witness ==
    /\ vResult.done /\ Len(allVotes) = 2 /\ Len(voteCounts) = 1
    /\ voteCounts[1].count = 2
    /\ allVotes[1].confidence = "medium" /\ allVotes[2].confidence = "high"
    /\ vResult.value.confidence = "high"

\* C31: in every step of a session the buckets that exist stay, in place,
\* with their key and answer; a bucket's count never goes down, and it goes
\* up, by exactly one, exactly in the step that draws an admitted sample
\* with the bucket's normalized answer; a bucket is created, with count 1,
\* only by an admitted sample of a new non-empty normalized answer.
C31_CountsOnlyIncrease ==
    [][/\ Len(voteCounts') >= Len(voteCounts)
       /\ Len(voteCounts') <= Len(voteCounts) + 1
       /\ \A b \in 1..Len(voteCounts) :
             /\ voteCounts'[b].key = voteCounts[b].key
             /\ voteCounts'[b].originalAnswer = voteCounts[b].originalAnswer
             /\ voteCounts'[b].count =
                    voteCounts[b].count +
                    (IF /\ Len(allVotes') = Len(allVotes) + 1
                        /\ ~allVotes'[Len(allVotes')].redFlagged
                        /\ normalizeAnswer(allVotes'[Len(allVotes')].answer) =
                               voteCounts[b].key
                     THEN 1 ELSE 0)
       /\ Len(voteCounts') = Len(voteCounts) + 1 =>
             /\ Len(allVotes') = Len(allVotes) + 1
             /\ ~allVotes'[Len(allVotes')].redFlagged
             /\ voteCounts'[Len(voteCounts')].count = 1
             /\ voteCounts'[Len(voteCounts')].key # <<>>
             /\ voteCounts'[Len(voteCounts')].key =
                    normalizeAnswer(allVotes'[Len(allVotes')].answer)
             /\ \A b \in 1..Len(voteCounts) :
                    voteCounts[b].key # voteCounts'[Len(voteCounts')].key]_vars

\* C31 witness: a running session with a bucket of count 2 and a second
\* bucket of count 1, after a rejected sample.
C31_Witness ==
    /\ vResult = Pending /\ Len(allVotes) = 4
    /\ Len(voteCounts) = 2
    /\ voteCounts[1].count = 2 /\ voteCounts[2].count = 1
    /\ NumRedFlagged(allVotes) = 1

\* C32 as stated: the tally of a session starts empty and only the session
\* changes it: at every moment it is the tally of the samples the session
\* admitted so far, whatever the code that received the progress callback
\* does with what it was handed.
C32_TallyOwnedBySession ==
    voteCounts = countVotes(SelectSeq(allVotes, IsNotRedFlagged))

\* C34: when a session stops at the cutoff with two or more buckets tied
\* for the highest count, the winner returned is the answer of the tied
\* bucket that was created first: the one whose first admitted sample came
\* before the first sample of every other tied bucket.
C34_CutoffTieEarliestBucket ==
    (vResult.done /\ ~vResult.value.consensusReached) =>
        \A keys \in {VoteKeys(allVotes)} :
        \A winnerKey \in {normalizeAnswer(vResult.value.winner)} :
            /\ winnerKey \in KeysOf(keys)
            /\ KeyCount(keys, winnerKey) = TopCount(keys)
            /\ vResult.value.winner = allVotes[FirstOfKey(keys, winnerKey)].answer
            /\ \A other \in KeysOf(keys) \ {winnerKey} :
                   KeyCount(keys, other) = TopCount(keys) =>
                       FirstOfKey(keys, winnerKey) < FirstOfKey(keys, other)

\* C34 witness: with k = 2 and maxVotes = 2 the samples London, Paris stop
\* the session at the cutoff on a tie of 1 to 1, and the winner returned is
\* the answer of the first sample, whose bucket was created first.
C34_Witness ==
    /\ vResult.done /\ ~vResult.value.consensusReached
    /\ k = 2 /\ maxVotes = 2
    /\ VoteKeys(allVotes) = << <<"l">>, <<"p">> >>
    /\ vResult.value.stats.margin = 0
    /\ vResult.value.winner = allVotes[1].answer

\* C36: a result with consensusReached = true (k >= 1) has stats.margin
\* equal to k, never more, and winningVoteCount >= k, and the last sample
\* drawn was admitted and is a vote for the winning bucket.
C36_ConsensusByExactlyK ==
    (vResult.done /\ vResult.value.consensusReached /\ k >= 1) =>
        \A last \in {allVotes[Len(allVotes)]} :
            /\ vResult.value.stats.margin = k
            /\ vResult.value.stats.winningVoteCount >= k
            /\ ~last.redFlagged
            /\ normalizeAnswer(last.answer) # <<>>
            /\ normalizeAnswer(last.answer) = normalizeAnswer(vResult.value.winner)
            /\ vResult.value.stats.winningVoteCount =
                   KeyCount(VoteKeys(allVotes), normalizeAnswer(last.answer))

\* C36 witness: Paris, London, Paris, Paris with k = 2 returns consensus at
\* the fourth sample, a vote for Paris, with winningVoteCount 3 and margin 2.
C36_Witness ==
    /\ vResult.done /\ vResult.value.consensusReached
    /\ k = 2
    /\ VoteKeys(allVotes) = << <<"p">>, <<"l">>, <<"p">>, <<"p">> >>
    /\ vResult.value.stats.winningVoteCount = 3
    /\ vResult.value.stats.margin = 2

\* C37: a result with consensusReached = false has stats.margin < k, and
\* when the sample that brings the number of samples to maxVotes also
\* completes a lead of k, the result returned is the consensus result.
C37_CutoffBelowLead ==
    vResult.done =>
        /\ ~vResult.value.consensusReached => vResult.value.stats.margin < k
        /\ (Len(allVotes) = maxVotes /\ LeadOfK(VoteKeys(allVotes), k)) =>
               /\ vResult.value.consensusReached
               /\ vResult.value.stats.margin >= k

\* C37 witness: Paris, Paris, Paris with k = 3 and maxVotes = 3 completes
\* the lead of 3 with the sample that reaches the limit, and the consensus
\* result is returned.
C37_Witness ==
    /\ vResult.done /\ vResult.value.consensusReached
    /\ k = 3 /\ maxVotes = 3
    /\ VoteKeys(allVotes) = << <<"p">>, <<"p">>, <<"p">> >>
    /\ vResult.value.stats.totalVotes = 3
    /\ vResult.value.stats.margin = 3

\* A vote made of a provider call that threw
IsFailedCallVote(v) == v.answer = <<>> /\ v.confidence = "low"

\* C5: no exception leaves the session, and the step that draws a sample
\* whose oracle call threw adds one vote with empty answer, confidence low
\* and parseSucceeded = false that is red-flagged, leaves validVoteCount and
\* every tally bucket as they were, and goes on to the next sample or
\* returns the cutoff result.
C5_FailedCallIsRejectedSample ==
    [][/\ ~vError'
       /\ (Len(allVotes') = Len(allVotes) + 1
             /\ IsFailedCallVote(allVotes'[Len(allVotes')]))
           => /\ ~allVotes'[Len(allVotes')].parseSucceeded
              /\ allVotes'[Len(allVotes')].redFlagged
              /\ SubSeq(allVotes', 1, Len(allVotes)) = allVotes
              /\ validVoteCount' = validVoteCount
              /\ voteCounts' = voteCounts
              /\ \/ vResult' = Pending
                 \/ vResult'.done /\ ~vResult'.value.consensusReached]_vars

\* C5 witness: a session has returned a result that counts a failed call
\* among its red-flagged votes, followed by further samples.
C5_Witness ==
    /\ vResult.done
    /\ \E i \in 1..(Len(allVotes) - 1) : IsFailedCallVote(allVotes[i])
    /\ vResult.value.stats.redFlaggedVotes >= 1
    /\ vResult.value.stats.validVotes >= 1

-----------------------------------------------------------------------------
(* Claims about determineWinner (SpecDW) *)

\* C3: for a vote list with at least one vote that is not red-flagged and
\* has a non-empty key, determineWinner has consensusReached = true exactly
\* when winningVoteCount - runnerUpCount >= k (runnerUpCount the
\* second-highest bucket count, 0 with one distinct answer); margin is that
\* difference and the winner is the answer of a leading bucket in both cases.
C3_DetermineWinnerLeadOfK ==
    dResult.done =>
        \A keys \in {VoteKeys(dVotes)} :
            KeysOf(keys) # {} =>
                \A top \in {TopCount(keys)}, second \in {SecondCount(keys)} :
                    LET r == dResult.value
                    IN  /\ r.stats.winningVoteCount = top
                        /\ r.stats.margin = top - second
                        /\ r.consensusReached
                               <=> (r.stats.winningVoteCount - second >= dK)
                        /\ Cardinality(KeysOf(keys)) = 1 =>
                               (second = 0 /\ (r.consensusReached <=> top >= dK))
                        /\ normalizeAnswer(r.winner) \in KeysOf(keys)
                        /\ KeyCount(keys, normalizeAnswer(r.winner)) = top
                        /\ r.winner =
                               dVotes[FirstOfKey(keys, normalizeAnswer(r.winner))].answer

\* C3 witness: determineWinner has returned consensus on a list with two
\* distinct answers, the leader exactly k ahead though the runner-up has
\* votes.
C3_Witness ==
    /\ dResult.done
    /\ Cardinality(KeysOf(VoteKeys(dVotes))) = 2
    /\ SecondCount(VoteKeys(dVotes)) >= 1
    /\ dResult.value.consensusReached
    /\ dResult.value.stats.margin = dK

\* C13: in a session the sample with voteIndex 0 is requested at temperature
\* 0 and every later one at 0.1, rejected samples included: the i-th vote of
\* allVotes carries voteIndex i - 1 and the temperature of that index.
C13_TemperatureSchedule ==
    \A i \in 1..Len(allVotes) :
        /\ allVotes[i].voteIndex = i - 1
        /\ allVotes[i].temperature = IF i = 1 THEN TempZero ELSE TempPointOne

\* C13 witness: the first two samples of a session were rejected and the
\* third, admitted, was requested at 0.1.
C13_Witness ==
    /\ call = "voteUntilConsensus"
    /\ Len(allVotes) >= 3
    /\ allVotes[1].redFlagged /\ allVotes[1].temperature = TempZero
    /\ allVotes[2].redFlagged /\ allVotes[2].temperature = TempPointOne
    /\ ~allVotes[3].redFlagged /\ allVotes[3].temperature = TempPointOne

-----------------------------------------------------------------------------
(* Claims about Maker.ask (SpecAsk) *)

\* C4: ask always resolves to a MakerResult whatever the oracle does: its
\* promise never rejects, and it does not hang, since a sub-question's
\* session that has drawn maxVotes samples has returned its result.
C4_AskAlwaysResolves ==
    call = "ask" =>
        /\ aPc # "rejected"
        /\ (aPc = "voting" /\ Len(allVotes) >= maxVotes) => vResult.done

\* Reading an event log from the left: the last event read (phase), the
\* sub-question being voted on (index), the voteIndex the next vote must
\* carry (vote), the length of the plan (n). The phase is "bad" once an
\* event came out of order.
OrderStart == [phase |-> "start", index |-> 0 - 1, vote |-> 0, n |-> 0]

OrderStep(st, e) ==
    CASE st.phase = "start" /\ e.type = "classificationComplete" ->
            [st EXCEPT !.phase = "classificationComplete"]
      [] st.phase = "classificationComplete" /\ e.type = "decomposed" ->
            [st EXCEPT !.phase = "decomposed", !.n = Len(e.payload)]
      [] /\ st.phase \in {"decomposed", "subQuestionResolved"}
         /\ e.type = "votingStart"
         /\ st.index + 1 < st.n
         /\ e.payload.subQuestionIndex = st.index + 1 ->
            [st EXCEPT !.phase = "votingStart", !.index = st.index + 1, !.vote = 0]
      [] /\ st.phase \in {"votingStart", "voteCollected", "redFlagged"}
         /\ e.type = "voteProgress"
         /\ e.payload.subQuestionIndex = st.index
         /\ e.payload.voteIndex = st.vote ->
            [st EXCEPT !.phase = "voteProgress"]
      [] /\ st.phase = "voteProgress"
         /\ e.type = "voteCollected"
         /\ e.payload.subQuestionIndex = st.index
         /\ e.payload.voteIndex = st.vote ->
            [st EXCEPT !.phase = "voteCollected", !.vote = st.vote + 1]
      [] st.phase = "voteCollected" /\ e.type = "redFlagged" ->
            [st EXCEPT !.phase = "redFlagged"]
      [] /\ st.phase \in {"voteCollected", "redFlagged"}
         /\ e.type = "votingComplete"
         /\ e.payload.subQuestionIndex = st.index ->
            [st EXCEPT !.phase = "votingComplete"]
      [] /\ st.phase = "votingComplete"
         /\ e.type = "subQuestionResolved"
         /\ e.payload.index = st.index ->
            [st EXCEPT !.phase = "subQuestionResolved"]
      [] /\ st.phase = "subQuestionResolved"
         /\ e.type = "synthesisStart"
         /\ st.index + 1 = st.n ->
            [st EXCEPT !.phase = "synthesisStart"]
      [] st.phase = "synthesisStart" /\ e.type = "synthesisComplete" ->
            [st EXCEPT !.phase = "synthesisComplete"]
      [] st.phase = "synthesisComplete" /\ e.type = "complete" ->
            [st EXCEPT !.phase = "complete"]
      [] OTHER -> [st EXCEPT !.phase = "bad"]

RECURSIVE OrderFrom(_, _)
OrderFrom(st, evs) ==
    IF evs = <<>> THEN st ELSE OrderFrom(OrderStep(st, Head(evs)), Tail(evs))

\* The positions of the events of one type in a log
EventsOfType(evs, type) == {i \in 1..Len(evs) : evs[i].type = type}

\* C11: the events of an ask come in the order classificationComplete,
\* decomposed, then for each sub-question of the plan in list order
\* votingStart(i), its per-vote events (voteProgress, voteCollected and, for
\* a red-flagged vote, redFlagged, in vote-index order), votingComplete(i),
\* subQuestionResolved(i), then synthesisStart, synthesisComplete and
\* complete. The log of an ask under way is read without an event out of
\* order; votingStart(i) carries the question of the plan's entry i whatever
\* the dependencies declared; an ask has resolved exactly when the log ends
\* with complete, and then there is one complete event and it carries the
\* MakerResult returned.
C11_EventOrder ==
    call = "ask" =>
        \A order \in {OrderFrom(OrderStart, events)} :
            /\ order.phase # "bad"
            /\ \A i \in EventsOfType(events, "votingStart") :
                   events[i].payload.question =
                       decomposition.value.subQuestions[
                           events[i].payload.subQuestionIndex + 1].question
            /\ aPc = "resolved" <=> order.phase = "complete"
            /\ aPc = "resolved" =>
                   /\ Cardinality(EventsOfType(events, "complete")) = 1
                   /\ events[Len(events)].payload = aResult.value
                   /\ order.n = Len(decomposition.value.subQuestions)

\* C11 witness: an ask has resolved on a plan of two sub-questions whose first
\* declares a dependency on the second, with a red-flagged vote on the way.
C11_Witness ==
    /\ call = "ask" /\ aPc = "resolved"
    /\ Len(decomposition.value.subQuestions) = 2
    /\ decomposition.value.subQuestions[1].dependencies =
           <<decomposition.value.subQuestions[2].id>>
    /\ EventsOfType(events, "redFlagged") # {}
    /\ events[Len(events)].type = "complete"

\* C12: an ask never has more than one provider call outstanding. A call
\* for sample n of sub-question i is outstanding only while the ask is in
\* that sub-question's session, the sessions of the sub-questions before i
\* have returned and their results are pushed, the samples before n have
\* all been filtered (each is red-flagged or counted valid) and reported,
\* and the session has not returned; a settled ask has no call outstanding.
C12_OneCallOutstanding ==
    call = "ask" =>
        /\ Len(outstanding) <= 1
        /\ \A i \in 1..Len(outstanding) :
               outstanding[i].purpose = "vote" =>
                   /\ aPc = "voting"
                   /\ outstanding[i].subQuestionIndex = Len(subResults)
                   /\ outstanding[i].voteIndex = Len(allVotes)
                   /\ Len(onVoteCalls) = Len(allVotes)
                   /\ validVoteCount + NumRedFlagged(allVotes) = Len(allVotes)
                   /\ vResult = Pending /\ ~vError
        /\ aPc \in {"resolved", "rejected"} => outstanding = <<>>

\* C12 witness: the second sample of the second sub-question is requested
\* after the first session has returned and one sample has been tallied.
C12_Witness ==
    /\ call = "ask" /\ aPc = "voting"
    /\ Len(outstanding) = 1
    /\ outstanding[1].purpose = "vote"
    /\ outstanding[1].subQuestionIndex = 1 /\ outstanding[1].voteIndex = 1
    /\ Len(subResults) = 1 /\ Len(allVotes) = 1 /\ validVoteCount = 1

\* C14: the consensusReached of a MakerResult is the conjunction of the
\* consensusReached of its sub-results, and its confidence is low whenever a
\* sub-result did not reach consensus.
C14_ConsensusIsConjunction ==
    (call = "ask" /\ aPc = "resolved") =>
        /\ aResult.value.subQuestions = subResults
        /\ aResult.value.consensusReached <=>
               \A i \in 1..Len(subResults) : subResults[i].consensusReached
        /\ (\E i \in 1..Len(subResults) : ~subResults[i].consensusReached)
               => aResult.value.confidence = "low"

\* C14 witness: of two sub-results, both of confidence high and returned
\* unsynthesized, the second did not reach consensus: the result has
\* consensusReached false and confidence low.
C14_Witness ==
    /\ call = "ask" /\ aPc = "resolved"
    /\ aConfig.synthesisEnabled = Some(FALSE)
    /\ Len(subResults) = 2
    /\ subResults[1].consensusReached /\ subResults[1].confidence = "high"
    /\ ~subResults[2].consensusReached /\ subResults[2].confidence = "high"
    /\ ~aResult.value.consensusReached
    /\ aResult.value.confidence = "low"

\* The total of a statistic over the first n sub-results
RECURSIVE StatTotal(_, _, _)
StatTotal(results, field, n) ==
    IF n = 0 THEN 0
    ELSE StatTotal(results, field, n - 1) + results[n].votingStats[field]

\* m is the least value of a statistic over the sub-results
IsStatMin(results, field, m) ==
    /\ \E i \in 1..Len(results) : results[i].votingStats[field] = m
    /\ \A i \in 1..Len(results) : results[i].votingStats[field] >= m

\* C15: with one sub-result or more, the votingStats of the MakerResult has
\* totalVotes, validVotes and redFlaggedVotes equal to the sums over the
\* sub-results, and winningVoteCount and margin equal to the minima.
C15_AggregatedStats ==
    (call = "ask" /\ aPc = "resolved" /\ Len(subResults) >= 1) =>
        \A stats \in {aResult.value.votingStats} :
            /\ stats.totalVotes = StatTotal(subResults, "totalVotes", Len(subResults))
            /\ stats.validVotes = StatTotal(subResults, "validVotes", Len(subResults))
            /\ stats.redFlaggedVotes =
                   StatTotal(subResults, "redFlaggedVotes", Len(subResults))
            /\ IsStatMin(subResults, "winningVoteCount", stats.winningVoteCount)
            /\ IsStatMin(subResults, "margin", stats.margin)

\* C15 witness: two sub-results that differ in totalVotes, winningVoteCount
\* and margin, one of them with a red-flagged vote, have been aggregated.
C15_Witness ==
    /\ call = "ask" /\ aPc = "resolved"
    /\ Len(subResults) = 2
    /\ subResults[1].votingStats.totalVotes # subResults[2].votingStats.totalVotes
    /\ subResults[1].votingStats.winningVoteCount >
           subResults[2].votingStats.winningVoteCount
    /\ subResults[1].votingStats.margin > subResults[2].votingStats.margin
    /\ subResults[1].votingStats.redFlaggedVotes >= 1
    /\ aResult.value.votingStats.totalVotes =
           subResults[1].votingStats.totalVotes + subResults[2].votingStats.totalVotes
    /\ aResult.value.votingStats.margin = subResults[2].votingStats.margin

\* C16 as stated: when ask is called with options.k, every sub-question's
\* session runs with that k as its lead margin (and reports it in its
\* statistics), and the votingStats.k of the MakerResult is the override.
C16_OverrideK ==
    (call = "ask" /\ aConfig.optionsK # Absent) =>
        /\ aPc = "voting" => k = aConfig.optionsK[1]
        /\ \A i \in 1..Len(subResults) :
               subResults[i].votingStats.k = aConfig.optionsK[1]
        /\ aPc = "resolved" => aResult.value.votingStats.k = aConfig.optionsK[1]

\* C28 as stated: the k of the MakerResult's votingStats is the k the engine
\* was configured with (config.voting.k, 3 by default), whatever the number
\* of sub-questions and whether or not ask was given options.k.
C28_StatedEngineK ==
    (call = "ask" /\ aPc = "resolved") =>
        aResult.value.votingStats.k = OrElse(aConfig.votingK, DefaultK)

\* C28 amended: with two sub-questions or more the k of the MakerResult's
\* votingStats is the configured k (config.voting.k, 3 by default); with
\* exactly one sub-question the votingStats are that session's own, whose k
\* is options.k when ask was given one and the configured k otherwise.
C28_ReportedK ==
    (call = "ask" /\ aPc = "resolved") =>
        aResult.value.votingStats.k =
            IF Len(aResult.value.subQuestions) = 1
            THEN OrElse(aConfig.optionsK, OrElse(aConfig.votingK, DefaultK))
            ELSE OrElse(aConfig.votingK, DefaultK)

\* C28 witness: ask, configured with voting.k = 1 and called with
\* options.k = 2, resolved on a single sub-question and reports k = 2.
C28_Witness ==
    /\ call = "ask" /\ aPc = "resolved"
    /\ aConfig.votingK = Some(1) /\ aConfig.optionsK = Some(2)
    /\ Len(aResult.value.subQuestions) = 1
    /\ aResult.value.votingStats.k = 2

\* C40: the provider calls of an ask that has resolved are: one
\* classification call, or none when decomposition is disabled or the
\* classifier is a custom function; one decomposition call exactly when a
\* classification was made and says decomposition is needed; the totalVotes
\* of each of its sub-results; and one synthesis call exactly when synthesis
\* is enabled and there are two sub-results or more. No call is left
\* unanswered.
C40_OracleCallCount ==
    (call = "ask" /\ aPc = "resolved") =>
        LET classifications ==
                IF aConfig.decompositionEnabled = Some(FALSE) \/
                   aConfig.classifier # "auto" THEN 0 ELSE 1
            decompositions ==
                IF classification.done /\ classification.value.needsDecomposition
                THEN 1 ELSE 0
            samples == StatTotal(subResults, "totalVotes", Len(subResults))
            syntheses ==
                IF aConfig.synthesisEnabled # Some(FALSE) /\ Len(subResults) >= 2
                THEN 1 ELSE 0
        IN  /\ oracleCalls = classifications + decompositions + samples + syntheses
            /\ outstanding = <<>>
            /\ aConfig.decompositionEnabled = Some(FALSE) => ~classification.done

\* C40 witness: an ask with a custom classifier that asks for decomposition
\* has resolved on two sub-questions of one sample each after four provider
\* calls: no classification call, the decomposition call, two samples and
\* the synthesis call.
C40_Witness ==
    /\ call = "ask" /\ aPc = "resolved"
    /\ aConfig.classifier = "complex"
    /\ aConfig.synthesisEnabled = Absent
    /\ Len(subResults) = 2
    /\ subResults[1].votingStats.totalVotes = 1
    /\ subResults[2].votingStats.totalVotes = 1
    /\ oracleCalls = 4

\* The redFlagged events among a sequence of events
RECURSIVE RedFlaggedEvents(_)
RedFlaggedEvents(evs) ==
    IF evs = <<>> THEN <<>>
    ELSE (IF Head(evs).type = "redFlagged" THEN <<Head(evs)>> ELSE <<>>)
         \o RedFlaggedEvents(Tail(evs))

\* C29 as stated: the step of ask that draws a sample emits exactly one
\* redFlagged event, with the sample's answer and the reason of the
\* rejection, when the admission filter rejects the sample, and no
\* redFlagged event when it admits it.
C29_RedFlaggedEventPerRejection ==
    [][(call = "ask" /\ Len(allVotes') = Len(allVotes) + 1) =>
         \A vote \in {allVotes'[Len(allVotes')]} :
         \A emitted \in {RedFlaggedEvents(SubSeq(events', Len(events) + 1, Len(events')))} :
            IF check(rfConfig, vote.answer, vote.parseSucceeded).redFlagged
            THEN /\ Len(emitted) = 1
                 /\ emitted[1].payload.answer = vote.answer
                 /\ emitted[1].payload.reason = vote.redFlagReason
            ELSE emitted = <<>>]_vars

\* C17: with decomposition disabled decompose calls the provider not once
\* (no classification or decomposition call is ever made or awaited: every
\* call of the ask is a voting call) and returns one sub-question, the input
\* question verbatim with id sq1, no dependencies, type factual and index 0,
\* with strategy none and a classification with needsDecomposition false.
C17_DisabledDecomposition ==
    (call = "ask" /\ aConfig.decompositionEnabled = Some(FALSE)) =>
        /\ aPc \notin {"classify", "decompose"}
        /\ classification = Pending
        /\ \A i \in 1..Len(outstanding) : outstanding[i].purpose = "vote"
        /\ oracleCalls =
               Cardinality(EventsOfType(events, "voteProgress")) + Len(outstanding)
        /\ aPc # "start" =>
               /\ decomposition.done
               /\ decomposition.value.subQuestions =
                      <<[id |-> "sq1", question |-> aQuestion, dependencies |-> <<>>,
                         type |-> "factual", index |-> 0]>>
               /\ decomposition.value.synthesisStrategy = "none"
               /\ ~decomposition.value.classification.needsDecomposition
               /\ events[1] = Event("classificationComplete",
                                    decomposition.value.classification)
               /\ events[2] = Event("decomposed", decomposition.value.subQuestions)

\* C17 witness: an ask with decomposition disabled has its plan, and the only
\* provider call made so far is the one for the first sample.
C17_Witness ==
    /\ call = "ask" /\ aConfig.decompositionEnabled = Some(FALSE)
    /\ aPc = "voting" /\ decomposition.done
    /\ Len(decomposition.value.subQuestions) = 1
    /\ oracleCalls = 1
    /\ outstanding = VoteRequests(0, 0)

-----------------------------------------------------------------------------
(* Claims about Decomposer.decompose (SpecDecompose) *)

\* The content of a decomposition call holds no sub-question: it is no
\* object, or its subQuestions is missing or an empty array
YieldsNoSubQuestions(response) ==
    \/ response.kind # "object"
    \/ response.subQuestions = Absent
    \/ response.subQuestions[1] = <<>>

\* C18: when the classification asked for decomposition and the
\* decomposition call has returned, decompose returns a plan that is never
\* empty; when the call yielded no sub-question the plan is the single
\* sub-question wrapping the original question, with strategy none and the
\* classification received.
C18_EmptyDecompositionFallsBack ==
    (call = "decompose" /\ Len(pResponse) = 2 /\ pResponse[2].kind # "throw") =>
        /\ pResult.done /\ ~pResult.thrown
        /\ Len(pResult.value.subQuestions) >= 1
        /\ YieldsNoSubQuestions(pResponse[2]) =>
               /\ Len(pResult.value.subQuestions) = 1
               /\ pResult.value.subQuestions[1].id = "sq1"
               /\ pResult.value.subQuestions[1].question = pArgs.question
               /\ pResult.value.subQuestions[1].dependencies = <<>>
               /\ pResult.value.subQuestions[1].index = 0
               /\ pResult.value.synthesisStrategy = "none"
               /\ pResult.value.classification.needsDecomposition

\* C18 witness: the decomposition call returned an empty array of
\* sub-questions with a strategy, and decompose returned the single
\* sub-question with strategy none.
C18_Witness ==
    /\ call = "decompose" /\ Len(pResponse) = 2
    /\ pResponse[2] = DecompositionContent(Some(<<>>), Some("merge"))
    /\ pResult.done /\ ~pResult.thrown
    /\ Len(pResult.value.subQuestions) = 1
    /\ pResult.value.synthesisStrategy = "none"

\* The sub-questions the decomposition call of a decompose returned, and
\* the maximum the Decomposer was configured with
ReceivedSubQuestions == parseDecomposition(pResponse[2]).subQuestions
ConfiguredMaximum == OrElse(pArgs.maxSubQuestions, DefaultMaxSubQuestions)

DecompositionReturned ==
    /\ call = "decompose" /\ Len(pResponse) = 2 /\ pResponse[2].kind # "throw"
    /\ pResult.done /\ ~pResult.thrown

\* C33 as stated: when the decomposition call returns more sub-questions
\* than maxSubQuestions, decompose returns exactly the first maxSubQuestions
\* of them, in their order.
C33_StatedTruncation ==
    (DecompositionReturned /\ Len(ReceivedSubQuestions) > ConfiguredMaximum) =>
        pResult.value.subQuestions =
            [i \in 1..ConfiguredMaximum |-> ReceivedSubQuestions[i]]

\* C33 amended: when the decomposition call returns more sub-questions than
\* maxSubQuestions and maxSubQuestions is at least 1, decompose returns
\* exactly the first maxSubQuestions of them, in their order, with the
\* strategy received; with maxSubQuestions = 0 it returns the single
\* sub-question wrapping the original question, with strategy none.
C33_Truncation ==
    (DecompositionReturned /\ Len(ReceivedSubQuestions) > ConfiguredMaximum) =>
        /\ ConfiguredMaximum >= 1 =>
              /\ Len(pResult.value.subQuestions) = ConfiguredMaximum
              /\ \A i \in 1..ConfiguredMaximum :
                     pResult.value.subQuestions[i] = ReceivedSubQuestions[i]
              /\ pResult.value.synthesisStrategy =
                     parseDecomposition(pResponse[2]).synthesisStrategy
        /\ ConfiguredMaximum = 0 =>
              /\ pResult.value.subQuestions =
                     <<createSingleSubQuestion(pArgs.question,
                           parseClassification(pResponse[1]).questionType)>>
              /\ pResult.value.synthesisStrategy = "none"

\* C33 witness: three sub-questions were received with maxSubQuestions = 2,
\* and the plan returned is the first two, sq1 and sq2.
C33_Witness ==
    /\ DecompositionReturned
    /\ pArgs.maxSubQuestions = Some(2)
    /\ Len(ReceivedSubQuestions) = 3
    /\ Len(pResult.value.subQuestions) = 2
    /\ pResult.value.subQuestions[1].id = "sq1"
    /\ pResult.value.subQuestions[2].id = "sq2"
    /\ pResult.value.subQuestions[2].question = "Q2"

\* C38 as stated: whenever decompose returns (decomposition disabled, an
\* atomic classification, or a decomposition call that did not throw), the
\* plan has at least 1 sub-question and at most max(1, maxSubQuestions).
C38_PlanSize ==
    (call = "decompose" /\ pResult.done /\ ~pResult.thrown) =>
        /\ Len(pResult.value.subQuestions) >= 1
        /\ Len(pResult.value.subQuestions) <=
               (IF ConfiguredMaximum > 1 THEN ConfiguredMaximum ELSE 1)

-----------------------------------------------------------------------------
(* Claims about VotingEngine.collectVotes (SpecCollect) *)

\* C35: collectVotes makes samples provider calls, all of them before any
\* returns, and they return in any order; it returns, without throwing,
\* exactly samples votes, the vote at position i with voteIndex i and made
\* of the answer to call i; and a call that failed gives a red-flagged vote
\* of confidence low at its position, the other votes being kept.
C35_CollectVotes ==
    call = "collectVotes" =>
        /\ pCalls \in {0, pArgs.samples}
        /\ Len(pResponse) = pCalls
        /\ \A i \in 1..Len(pResponse) :
               pResponse[i].settled =>
                   /\ pResponse[i].vote.voteIndex = i - 1
                   /\ pResponse[i].response.kind = "throw" =>
                          /\ pResponse[i].vote.redFlagged
                          /\ pResponse[i].vote.confidence = "low"
                   /\ pResponse[i].response.kind = "object" =>
                          /\ ~pResponse[i].vote.redFlagged
                          /\ pResponse[i].vote.answer = pResponse[i].response.answer
        /\ pResult.done =>
               /\ ~pResult.thrown
               /\ pCalls = pArgs.samples
               /\ Len(pResult.value) = pArgs.samples
               /\ \A i \in 1..Len(pResult.value) :
                      /\ pResult.value[i].voteIndex = i - 1
                      /\ pResult.value[i] = pResponse[i].vote

\* C35 witness: of three calls the third failed first and the first
\* returned an answer last; collectVotes has returned three votes in the
\* order of the calls, the third red-flagged with confidence low.
C35_Witness ==
    /\ call = "collectVotes" /\ pResult.done /\ ~pResult.thrown
    /\ pArgs.samples = 3 /\ pCalls = 3
    /\ pResponse[3].completed = 0 /\ pResponse[3].response.kind = "throw"
    /\ pResponse[1].completed = 2 /\ pResponse[1].response.kind = "object"
    /\ Len(pResult.value) = 3
    /\ pResult.value[1].voteIndex = 0 /\ ~pResult.value[1].redFlagged
    /\ pResult.value[3].voteIndex = 2 /\ pResult.value[3].redFlagged
    /\ pResult.value[3].confidence = "low"

-----------------------------------------------------------------------------
(* Claims about two concurrent ask calls (SpecConcurrent) *)

\* What an ask holds comes from its own samples only: the tally of its
\* session is the count of the session's own admitted samples, a session
\* result is the one determineWinner gives for the session's own samples,
\* each sub-result is for the sub-question of its own plan, and the result of
\* a resolved ask is made of its own sub-results, its provider calls being
\* its decomposition call, its samples and its synthesis call.
CountsOwnSamples(ask) ==
    /\ ask.voteCounts = countVotes(SelectSeq(ask.allVotes, IsNotRedFlagged))
    /\ ask.vResult.done =>
           \A direct \in {determineWinner(ask.allVotes, ask.k)} :
               /\ direct.winner = ask.vResult.value.winner
               /\ direct.consensusReached = ask.vResult.value.consensusReached
               /\ direct.confidence = ask.vResult.value.confidence
               /\ direct.stats = ask.vResult.value.stats
    /\ \A i \in 1..Len(ask.subResults) :
           ask.subResults[i].question = ask.decomposition.value.subQuestions[i].question
    /\ ask.aPc = "resolved" =>
           /\ ask.aResult.value.subQuestions = ask.subResults
           /\ ask.aResult.value.votingStats.totalVotes =
                  StatTotal(ask.subResults, "totalVotes", Len(ask.subResults))
           /\ ask.oracleCalls =
                  (IF ask.classification.done /\ ask.classification.value.needsDecomposition
                   THEN 1 ELSE 0)
                  + StatTotal(ask.subResults, "totalVotes", Len(ask.subResults))
                  + (IF Len(ask.subResults) >= 2 THEN 1 ELSE 0)

\* A step of two concurrent asks is a step that one ask takes when it runs
\* alone, and it leaves the other ask as it was; or the asks take turns, and
\* each goes on with exactly what it had.
StepOfOneAsk ==
    \/ otherAsk' = otherAsk /\ NextAsk
    \/ otherAsk' = RunningAsk /\ RunningAsk' = otherAsk

\* C39: two ask calls that run concurrently on one Maker, taking turns at
\* their provider calls in any order, do not affect each other: every step
\* is a step of one of them as it runs alone and leaves the other's locals
\* unchanged, and the tallies, sub-results and votingStats of each count
\* only the samples drawn for its own sub-questions.
C39_ConcurrentAsksIndependent ==
    /\ [](otherAsk # NoAsk => CountsOwnSamples(RunningAsk) /\ CountsOwnSamples(otherAsk))
    /\ [][otherAsk # NoAsk => StepOfOneAsk]_vars

\* C39 witness: the running ask has resolved on two sub-questions of one
\* sample each, both answered P, while the other ask, which ran in between,
\* has its first sub-result, L, from one sample of its own, and is suspended
\* where it awaits the return of its second session: that session has
\* handled its one sample, answered L, and ask has not taken its result.
C39_Witness ==
    /\ otherAsk # NoAsk
    /\ aPc = "resolved" /\ Len(subResults) = 2
    /\ aResult.value.votingStats.totalVotes = 2
    /\ subResults[1].answer = <<"P">> /\ subResults[2].answer = <<"P">>
    /\ otherAsk.aPc = "voting" /\ otherAsk.outstanding = <<>>
    /\ Len(otherAsk.subResults) = 1
    /\ otherAsk.subResults[1].answer = <<"L">>
    /\ otherAsk.subResults[1].votingStats.totalVotes = 1
    /\ otherAsk.vResult.done /\ otherAsk.vResult.value.winner = <<"L">>
    /\ Len(otherAsk.allVotes) = 1 /\ ~otherAsk.allVotes[1].redFlagged
    /\ otherAsk.voteCounts # <<>>
    /\ otherAsk.events[Len(otherAsk.events)].type = "voteCollected"

-----------------------------------------------------------------------------
(* Claims about Synthesizer.synthesize (SpecSynth) *)

\* C19: synthesize calls the provider once when synthesis is enabled and
\* there are two sub-results or more, and not at all otherwise; without a
\* sub-result it returns "Unable to determine answer." at confidence low;
\* with exactly one sub-result, and with synthesis disabled and at least
\* one, it returns the first sub-result's answer and confidence unchanged.
C19_SynthesizeWithoutCall ==
    (call = "synthesize" /\ pResult.done) =>
        \A enabled \in {OrElse(pArgs.enabled, TRUE)} :
            /\ pCalls = IF enabled /\ Len(pArgs.subAnswers) >= 2 THEN 1 ELSE 0
            /\ Len(pArgs.subAnswers) = 0 =>
                   pResult = StageReturned([answer |-> UnableToDetermine,
                                            confidence |-> "low"])
            /\ (Len(pArgs.subAnswers) = 1 \/ (~enabled /\ Len(pArgs.subAnswers) >= 1)) =>
                   pResult = StageReturned([answer |-> pArgs.subAnswers[1].answer,
                                            confidence |-> pArgs.subAnswers[1].confidence])

\* C19 witness: synthesize, disabled, has returned the first of two different
\* sub-results without a provider call.
C19_Witness ==
    /\ call = "synthesize" /\ pResult.done
    /\ pArgs.enabled = Some(FALSE)
    /\ Len(pArgs.subAnswers) = 2
    /\ pArgs.subAnswers[1].answer # pArgs.subAnswers[2].answer
    /\ pArgs.subAnswers[1].confidence = "medium"
    /\ pCalls = 0
    /\ pResult.value.answer = pArgs.subAnswers[1].answer

\* The sub-answers of one confidence level
AtLevel(subAnswers, level) ==
    {i \in DOMAIN subAnswers : subAnswers[i].confidence = level}

\* C20: with two sub-results or more and synthesis enabled, the confidence
\* synthesize returns is low if the synthesis call's confidence is low or a
\* sub-result is low; otherwise medium if the call's confidence is medium or
\* more sub-results are medium than high; otherwise high. It is never higher
\* than the call's own confidence.
C20_SynthesisConfidence ==
    (call = "synthesize" /\ pCalls = 1 /\ pResult.done /\ ~pResult.thrown) =>
        \A own \in {parseSynthesis(pResponse[1]).confidence} :
            /\ pResult.value.confidence =
                   IF own = "low" \/ AtLevel(pArgs.subAnswers, "low") # {}
                   THEN "low"
                   ELSE IF \/ own = "medium"
                           \/ Cardinality(AtLevel(pArgs.subAnswers, "medium")) >
                                  Cardinality(AtLevel(pArgs.subAnswers, "high"))
                   THEN "medium"
                   ELSE "high"
            /\ confidenceOrder(pResult.value.confidence) <= confidenceOrder(own)

\* C20 witness: the synthesis call returned text (confidence medium) for
\* sub-results that are all high, and synthesize returned medium.
C20_Witness ==
    /\ call = "synthesize" /\ pCalls = 1 /\ pResult.done /\ ~pResult.thrown
    /\ pResponse[1].kind = "text"
    /\ Len(pArgs.subAnswers) >= 2
    /\ \A i \in DOMAIN pArgs.subAnswers : pArgs.subAnswers[i].confidence = "high"
    /\ pResult.value.confidence = "medium"

-----------------------------------------------------------------------------
(* Claims about the Maker constructor (SpecMaker) *)

\* C21: a Maker constructed with a provider string that is not one of the
\* known identifiers throws 'Unknown provider' from the constructor: no
\* instance is returned, so ask never runs on it.
C21_UnknownProviderThrows ==
    (/\ call \in {"new Maker", "ask"}
     /\ pArgs.provider.kind = "id"
     /\ pArgs.provider.id \notin KnownProviderIds) =>
        /\ pResult.done =>
              /\ pResult.thrown
              /\ pResult.message = "Unknown provider: "
              /\ pResult.detail = pArgs.provider.id
        /\ call = "new Maker"
        /\ aPc = "idle" /\ oracleCalls = 0 /\ events = <<>>

\* C21 witness: the constructor has thrown for the provider "unknown"
C21_Witness ==
    /\ call = "new Maker"
    /\ pArgs.provider = ProviderId("unknown")
    /\ pResult.done /\ pResult.thrown
    /\ pResult.message = "Unknown provider: "

-----------------------------------------------------------------------------
(* Claims about both entry points of the engine (SpecEngine) *)

\* The statistics of a result over the votes it was computed from
StatsAccountFor(stats, votes) ==
    /\ stats.totalVotes = Len(votes)
    /\ stats.totalVotes = stats.validVotes + stats.redFlaggedVotes
    /\ stats.redFlaggedVotes = NumRedFlagged(votes)
    /\ stats.winningVoteCount = TopCount(VoteKeys(votes))

\* C6: in every VotingResult of voteUntilConsensus and of determineWinner
\* totalVotes = validVotes + redFlaggedVotes, redFlaggedVotes is the number
\* of red-flagged samples (in a session: those the admission filter
\* rejects), and no red-flagged vote is counted in a bucket: every bucket
\* of the session's tally, and the winning count of a result, counts only
\* votes that are not red-flagged.
C6_RedFlaggedVotesNotCounted ==
    /\ \A i \in 1..Len(allVotes) :
           allVotes[i].redFlagged
               <=> check(rfConfig, allVotes[i].answer, allVotes[i].parseSucceeded).redFlagged
    /\ validVoteCount = Len(allVotes) - NumRedFlagged(allVotes)
    /\ \A keys \in {VoteKeys(allVotes)} :
           /\ {voteCounts[i].key : i \in 1..Len(voteCounts)} = KeysOf(keys)
           /\ \A i \in 1..Len(voteCounts) :
                  voteCounts[i].count = KeyCount(keys, voteCounts[i].key)
    /\ vResult.done => StatsAccountFor(vResult.value.stats, allVotes)
    /\ dResult.done => StatsAccountFor(dResult.value.stats, dVotes)

\* C6 witness: a session has returned a result with both red-flagged and
\* valid votes, and the leading answer was also given by a rejected sample.
C6_Witness ==
    /\ vResult.done
    /\ vResult.value.stats.redFlaggedVotes >= 2
    /\ vResult.value.stats.validVotes >= 2
    /\ \E i \in 1..Len(allVotes) :
           /\ allVotes[i].redFlagged
           /\ normalizeAnswer(allVotes[i].answer) = normalizeAnswer(vResult.value.winner)

-----------------------------------------------------------------------------
(* Claims about normalizeAnswer (SpecNorm) *)

\* C7: normalizeAnswer is idempotent, and insensitive to letter case, to
\* whitespace around the answer and to trailing punctuation: the key of an
\* answer is a fixed point of normalizeAnswer, and lower-casing the answer,
\* wrapping it in whitespace or appending a punctuation character gives the
\* same key.
C7_NormalizeIdempotentInsensitive ==
    nResult.done =>
        LET key == nResult.value
        IN  /\ normalizeAnswer(key) = key
            /\ normalizeAnswer(ToLowerCase(nInput)) = key
            /\ normalizeAnswer(<<" ">> \o nInput \o <<" ">>) = key
            /\ \A c \in PunctChars : normalizeAnswer(nInput \o <<c>>) = key

-----------------------------------------------------------------------------
(* Claims about RedFlagFilter.check (SpecFilter) *)

\* The trimmed length of the answer checked, and the filter's thresholds
fLen == Len(Trim(fAnswer))
fTooLong == fLen > 4 * fConfig.maxTokens
fTooShort == fLen < fConfig.minChars
fValidatorOutcome ==
    IF fConfig.validator = "none" THEN NoFlag
    ELSE customValidator(fConfig.validator, Trim(fAnswer))

\* C8 as stated: the priority is (1) empty, whitespace-only or shorter than
\* minChars gives response_too_short, (2) more than maxTokens estimated
\* tokens gives response_too_long, (3) a failed parse gives invalid_format,
\* (4) the custom validator, called only when none of (1)-(3) fired.
C8_StatedPriority ==
    fResult.done =>
        IF fAnswer = <<>> \/ fLen = 0 \/ fTooShort
        THEN fResult.value = Flag("response_too_short") /\ fValidatorCalls = 0
        ELSE IF fTooLong
        THEN fResult.value = Flag("response_too_long") /\ fValidatorCalls = 0
        ELSE IF ~fParse
        THEN fResult.value = Flag("invalid_format") /\ fValidatorCalls = 0
        ELSE fResult.value = fValidatorOutcome

\* C8 (amended): check returns at the first match of (1) empty answer gives
\* response_too_short, (2) more than maxTokens estimated tokens gives
\* response_too_long, (3) trimmed length below minChars gives
\* response_too_short, (4) a failed parse gives invalid_format, (5) the
\* custom validator, which is called exactly when one is configured and none
\* of (1)-(4) fired.
C8_CheckPriority ==
    fResult.done =>
        IF fAnswer = <<>>
        THEN fResult.value = Flag("response_too_short") /\ fValidatorCalls = 0
        ELSE IF fTooLong
        THEN fResult.value = Flag("response_too_long") /\ fValidatorCalls = 0
        ELSE IF fTooShort
        THEN fResult.value = Flag("response_too_short") /\ fValidatorCalls = 0
        ELSE IF ~fParse
        THEN fResult.value = Flag("invalid_format") /\ fValidatorCalls = 0
        ELSE /\ fResult.value = fValidatorOutcome
             /\ fValidatorCalls = IF fConfig.validator = "none" THEN 0 ELSE 1

\* C8 witness: check has returned on an answer that is too long, too short
\* and unparsed at once, under a configured validator.
C8_Witness ==
    /\ fResult.done /\ fAnswer # <<>> /\ fTooLong /\ fTooShort /\ ~fParse
    /\ fConfig.validator # "none"
    /\ fResult.value.reason = "response_too_long"

\* C9 as stated: check(answer, parseSucceeded = false) always returns
\* redFlagged = true with reason invalid_format.
C9_StatedAlwaysInvalidFormat ==
    (fResult.done /\ ~fParse) => fResult.value = Flag("invalid_format")

\* C9 (amended): check(answer, parseSucceeded = false) always returns
\* redFlagged = true; the reason is invalid_format exactly when the answer is
\* non-empty, within maxTokens and at least minChars long, and otherwise it
\* is the length reason: response_too_short for an empty answer, else
\* response_too_long when the estimate exceeds maxTokens, else
\* response_too_short.
C9_UnparsedAlwaysFlagged ==
    (fResult.done /\ ~fParse) =>
        /\ fResult.value.redFlagged
        /\ fResult.value.reason = "invalid_format"
               <=> (fAnswer # <<>> /\ ~fTooLong /\ ~fTooShort)
        /\ fResult.value.reason =
               IF fAnswer = <<>> THEN "response_too_short"
               ELSE IF fTooLong THEN "response_too_long"
               ELSE IF fTooShort THEN "response_too_short"
               ELSE "invalid_format"

\* C9 witness: an unparsed answer of admissible length was flagged
\* invalid_format.
C9_Witness ==
    /\ fResult.done /\ ~fParse /\ fLen >= 1 /\ ~fTooLong /\ ~fTooShort
    /\ fResult.value = Flag("invalid_format")

\* C10 as stated (no custom validator): an answer of trimmed length exactly
\* minChars, parsed and within maxTokens, is never flagged; an answer one
\* character shorter than minChars is always flagged response_too_short; an
\* answer whose estimate is maxTokens + 1 is always flagged
\* response_too_long.
C10_StatedBoundaries ==
    (fResult.done /\ fConfig.validator = "none") =>
        /\ (fLen = fConfig.minChars /\ fParse /\ ~fTooLong)
               => ~fResult.value.redFlagged
        /\ fLen = fConfig.minChars - 1
               => fResult.value = Flag("response_too_short")
        /\ (4 * fConfig.maxTokens < fLen /\ fLen <= 4 * (fConfig.maxTokens + 1))
               => fResult.value = Flag("response_too_long")

\* The filter of the defaults on answers of 3000 and of 3001 characters
C10_Defaults ==
    /\ check(DefaultFilterConfig, Repeat("l", 4 * DefaultMaxTokens), TRUE) = NoFlag
    /\ check(DefaultFilterConfig, Repeat("l", 4 * DefaultMaxTokens + 1), TRUE)
           = Flag("response_too_long")

\* C10 (amended, no custom validator): a non-empty answer of trimmed length
\* exactly minChars, parsed and within maxTokens, is never flagged; an answer
\* one character shorter than minChars is always flagged, response_too_long
\* when it is non-empty and its estimate exceeds maxTokens and
\* response_too_short otherwise; an answer whose estimate is maxTokens + 1 is
\* always flagged response_too_long (with the defaults 3000 characters are
\* not flagged and 3001 are).
C10_Boundaries ==
    (fResult.done /\ fConfig.validator = "none") =>
        /\ (fAnswer # <<>> /\ fLen = fConfig.minChars /\ fParse /\ ~fTooLong)
               => ~fResult.value.redFlagged
        /\ fLen = fConfig.minChars - 1
               => fResult.value = IF fAnswer # <<>> /\ fTooLong
                                  THEN Flag("response_too_long")
                                  ELSE Flag("response_too_short")
        /\ (4 * fConfig.maxTokens < fLen /\ fLen <= 4 * (fConfig.maxTokens + 1))
               => fResult.value = Flag("response_too_long")
        /\ C10_Defaults

\* C10 witness: check has returned on an answer one character shorter than
\* minChars whose estimate is maxTokens + 1.
C10_Witness ==
    /\ fResult.done /\ fConfig.validator = "none"
    /\ fLen = fConfig.minChars - 1
    /\ 4 * fConfig.maxTokens < fLen /\ fLen <= 4 * (fConfig.maxTokens + 1)
    /\ fResult.value = Flag("response_too_long")

====
